---- MODULE Spec2Model ----
(***************************************************************************)
(* Shadow Nexus Core_Control: MessageProcessor (text -> Command),          *)
(* SignatureVerifier (HMAC signatures with a maximum age), CommandRouter   *)
(* (registry of handler factories, dispatch) and CoreControl.process_input *)
(* (the composition of the three).                                         *)
(*                                                                         *)
(* Text is a sequence of one-character strings.  Clock readings and        *)
(* timestamps are integers (one unit = one second of datetime.now()).      *)
(***************************************************************************)
EXTENDS Integers, Sequences, FiniteSets, TLC

VARIABLES
    now,            \* the reading of datetime.now()
    lax_dict,       \* build: pydantic 1.x coerces a non-dict payload with dict(v)
    command_cache,  \* MessageProcessor._command_cache : key -> Command
    extracted,      \* the last extract_command / process_message call and its result
    secret_key,     \* SignatureVerifier._secret_key
    max_age,        \* SignatureVerifier._max_age (seconds)
    issued,         \* the last generate_signature call and its result
    verified,       \* the last verify_signature call and its result
    handlers,       \* CommandRouter._handlers : system name -> handler class
    initialized,    \* CommandRouter._initialized
    registered,     \* the last register_handler call and the warning it logged
    task,           \* one record per dispatch task (a route_command or process_input call)
    instances,      \* the number of handler_class() calls made so far
    smtp,           \* EmailHandler.smtp of the email handler object
    delivery,       \* the last handler call and what it put on the platform
    accepted,       \* a verify_signature call that returned True, kept by an observer
    risk_manager,   \* the RiskManager object: its parameters, daily_risk_used and _last_reset
    today,          \* the date of datetime.now(), in days
    sized,          \* the last calculate_position_size call and what it returned
    collector,      \* the DataCollector: sources, last_update, processed_items
    monitor,        \* start_monitoring: _running and the place of its loop
    gathered        \* what the collections so far returned, and when

vars == <<now, lax_dict, command_cache, extracted, secret_key, max_age, issued,
          verified, handlers, initialized, registered, task, instances,
          smtp, delivery, accepted,
          risk_manager, today, sized, collector, monitor, gathered>>

\* ------------------------------------------------------------------------
\* Bounds of the model
\* ------------------------------------------------------------------------
MaxNow == 302          \* the last clock reading
MaxCache == 2          \* extract_command is not exercised beyond this many entries
NumTasks == 2          \* dispatch tasks scheduled on one router
MaxInstances == 2      \* handler_class() is called at most this many times
MaxDay == 2            \* the last date the clock shows
MaxTime == 5           \* the last clock reading of a monitoring run, in seconds

\* ------------------------------------------------------------------------
\* Text helpers
\* ------------------------------------------------------------------------
Letters == {"a", "b", "c", "d", "e", "f", "g", "h", "i", "j", "k", "l", "m",
            "n", "o", "p", "q", "r", "s", "t", "u", "v", "w", "x", "y", "z"}
DigitChars == <<"0", "1", "2", "3", "4", "5", "6", "7", "8", "9">>
Digits == {DigitChars[i] : i \in 1..10}

\* \w of the re module (ASCII part)
WordChars == Letters \cup Digits \cup {"_"}

\* the whitespace json.loads skips
JsonSpace == {" "}

DigitValue(c) == (CHOOSE i \in 1..10 : DigitChars[i] = c) - 1

RECURSIVE IntStr(_)
\* str(n) of a non-negative int
IntStr(n) ==
    IF n < 10 THEN <<DigitChars[n + 1]>>
    ELSE IntStr(n \div 10) \o <<DigitChars[(n % 10) + 1]>>

\* str(x) of a float with an integral non-negative value, as f"{timestamp}" prints it
FloatStr(n) == IntStr(n) \o <<".", "0">>

\* ------------------------------------------------------------------------
\* JSON values.  Every value is a record of one shape:
\*   t     : "num" | "str" | "lit" | "arr" | "obj" | "member" | "none"
\*   n     : the number, for "num"
\*   s     : the text of a "str", the key of a "member", the name of a "lit"
\*   items : the elements of an "arr", the members of an "obj" (in source
\*           order), the one value of a "member"
\* ------------------------------------------------------------------------
JNone == [t |-> "none", n |-> 0, s |-> <<>>, items |-> <<>>]
JNum(n) == [t |-> "num", n |-> n, s |-> <<>>, items |-> <<>>]
JStr(s) == [t |-> "str", n |-> 0, s |-> s, items |-> <<>>]
JArr(items) == [t |-> "arr", n |-> 0, s |-> <<>>, items |-> items]
JObj(members) == [t |-> "obj", n |-> 0, s |-> <<>>, items |-> members]
JMember(k, v) == [t |-> "member", n |-> 0, s |-> k, items |-> <<v>>]

\* the keys of a dict, and the value a key maps to (the last member wins,
\* as in a Python dict built in source order)
DictKeys(d) == {d.items[i].s : i \in 1..Len(d.items)}
DictGet(d, k) ==
    LET last == CHOOSE i \in 1..Len(d.items) :
                    /\ d.items[i].s = k
                    /\ \A j \in (i + 1)..Len(d.items) : d.items[j].s # k
    IN  d.items[last].items[1]

\* dict.__eq__ : same keys, equal values, whatever the order
DictEq(d, e) ==
    /\ d.t = "obj" /\ e.t = "obj"
    /\ DictKeys(d) = DictKeys(e)
    /\ \A k \in DictKeys(d) : DictGet(d, k) = DictGet(e, k)

\* ------------------------------------------------------------------------
\* json.loads, for the JSON made of objects, arrays, strings without
\* escapes, unsigned integers and the literals null / true / false
\* ------------------------------------------------------------------------
JLit(name) == [t |-> "lit", n |-> 0, s |-> name, items |-> <<>>]

\* the character at position i, "" past the end
At(s, i) == IF i >= 1 /\ i <= Len(s) THEN s[i] ELSE ""

\* the first position at or after i that holds no whitespace
SkipSpace(s, i) ==
    CHOOSE j \in i..(Len(s) + 1) :
        /\ At(s, j) \notin JsonSpace
        /\ \A k \in i..(j - 1) : s[k] \in JsonSpace

\* the first position at or after i that holds no character of the class
RunEnd(s, i, class) ==
    CHOOSE j \in i..(Len(s) + 1) :
        /\ At(s, j) \notin class
        /\ \A k \in i..(j - 1) : s[k] \in class

RECURSIVE DecimalValue(_)
DecimalValue(ds) ==
    IF ds = <<>> THEN 0
    ELSE 10 * DecimalValue(SubSeq(ds, 1, Len(ds) - 1)) + DigitValue(ds[Len(ds)])

ParseFail == [ok |-> FALSE, v |-> JNone, i |-> 0]
ParseOk(v, i) == [ok |-> TRUE, v |-> v, i |-> i]

\* NUMBER_RE: 0 | [1-9][0-9]*
ParseNumber(s, i) ==
    IF s[i] = "0" THEN ParseOk(JNum(0), i + 1)
    ELSE LET j == RunEnd(s, i, Digits)
         IN  ParseOk(JNum(DecimalValue(SubSeq(s, i, j - 1))), j)

\* s[i] is the opening quote
ParseString(s, i) ==
    IF \E j \in (i + 1)..Len(s) : s[j] = "\""
    THEN LET j == CHOOSE j \in (i + 1)..Len(s) :
                      /\ s[j] = "\""
                      /\ \A k \in (i + 1)..(j - 1) : s[k] # "\""
         IN  ParseOk(JStr(SubSeq(s, i + 1, j - 1)), j + 1)
    ELSE ParseFail

\* does the text w stand at position i
StartsWith(s, i, w) == i + Len(w) - 1 <= Len(s) /\ SubSeq(s, i, i + Len(w) - 1) = w

ParseLiteral(s, i) ==
    IF StartsWith(s, i, <<"n", "u", "l", "l">>) THEN ParseOk(JLit(<<"n", "u", "l", "l">>), i + 4)
    ELSE IF StartsWith(s, i, <<"t", "r", "u", "e">>) THEN ParseOk(JLit(<<"t", "r", "u", "e">>), i + 4)
    ELSE IF StartsWith(s, i, <<"f", "a", "l", "s", "e">>) THEN ParseOk(JLit(<<"f", "a", "l", "s", "e">>), i + 5)
    ELSE ParseFail

RECURSIVE ParseValue(_, _), ParseElements(_, _, _), ParseMembers(_, _, _)

\* the elements of an array; i is where the next element must start
ParseElements(s, i, acc) ==
    LET r == ParseValue(s, i)
        j == SkipSpace(s, r.i)
    IN  IF ~r.ok THEN ParseFail
        ELSE IF At(s, j) = "]" THEN ParseOk(JArr(Append(acc, r.v)), j + 1)
        ELSE IF At(s, j) = "," THEN ParseElements(s, SkipSpace(s, j + 1), Append(acc, r.v))
        ELSE ParseFail

\* the members of an object; i is where the next key must start
ParseMembers(s, i, acc) ==
    IF At(s, i) # "\"" THEN ParseFail
    ELSE LET key == ParseString(s, i)
             c == SkipSpace(s, key.i)
             r == ParseValue(s, SkipSpace(s, c + 1))
             j == SkipSpace(s, r.i)
             members == Append(acc, JMember(key.v.s, r.v))
         IN  IF ~key.ok THEN ParseFail
             ELSE IF At(s, c) # ":" THEN ParseFail
             ELSE IF ~r.ok THEN ParseFail
             ELSE IF At(s, j) = "}" THEN ParseOk(JObj(members), j + 1)
             ELSE IF At(s, j) = "," THEN ParseMembers(s, SkipSpace(s, j + 1), members)
             ELSE ParseFail

ParseValue(s, i) ==
    LET c == At(s, i)
    IN  IF c = "\"" THEN ParseString(s, i)
        ELSE IF c = "{" THEN
            LET j == SkipSpace(s, i + 1)
            IN  IF At(s, j) = "}" THEN ParseOk(JObj(<<>>), j + 1)
                ELSE ParseMembers(s, j, <<>>)
        ELSE IF c = "[" THEN
            LET j == SkipSpace(s, i + 1)
            IN  IF At(s, j) = "]" THEN ParseOk(JArr(<<>>), j + 1)
                ELSE ParseElements(s, j, <<>>)
        ELSE IF c \in Digits THEN ParseNumber(s, i)
        ELSE ParseLiteral(s, i)

\* json.loads(s): ok = FALSE stands for JSONDecodeError
JsonLoads(s) ==
    LET r == ParseValue(s, SkipSpace(s, 1))
    IN  IF r.ok /\ SkipSpace(s, r.i) = Len(s) + 1 THEN r ELSE ParseFail

\* ------------------------------------------------------------------------
\* re.search(COMMAND_PATTERN, message), COMMAND_PATTERN = #(\w+)@(\w+)\{([^}]+)\}
\* ------------------------------------------------------------------------
NoMatch == [found |-> FALSE, command_type |-> <<>>, target_system |-> <<>>,
            payload_str |-> <<>>, start |-> 0, end |-> 0]

\* the match of the pattern that starts at position i, if there is one
MatchAt(s, i) ==
    IF At(s, i) # "#" THEN NoMatch
    ELSE LET a == RunEnd(s, i + 1, WordChars)         \* end of (\w+)
             b == RunEnd(s, a + 1, WordChars)         \* end of the second (\w+)
         IN  IF a = i + 1 \/ At(s, a) # "@" THEN NoMatch
             ELSE IF b = a + 1 \/ At(s, b) # "{" THEN NoMatch
             ELSE IF ~\E c \in (b + 2)..Len(s) : s[c] = "}" THEN NoMatch
             ELSE IF s[b + 1] = "}" THEN NoMatch      \* [^}]+ needs one character
             ELSE LET c == CHOOSE c \in (b + 2)..Len(s) :
                                /\ s[c] = "}"
                                /\ \A k \in (b + 1)..(c - 1) : s[k] # "}"
                  IN  [found |-> TRUE,
                       command_type |-> SubSeq(s, i + 1, a - 1),
                       target_system |-> SubSeq(s, a + 1, b - 1),
                       payload_str |-> SubSeq(s, b + 1, c - 1),
                       start |-> i, end |-> c]

\* the rightmost match
ReSearchLast(s) ==
    IF \E i \in 1..Len(s) : MatchAt(s, i).found
    THEN MatchAt(s, CHOOSE i \in 1..Len(s) :
                        /\ MatchAt(s, i).found
                        /\ \A k \in (i + 1)..Len(s) : ~MatchAt(s, k).found)
    ELSE NoMatch

\* the leftmost match
ReSearch(s) ==
    IF \E i \in 1..Len(s) : MatchAt(s, i).found
    THEN MatchAt(s, CHOOSE i \in 1..Len(s) :
                        /\ MatchAt(s, i).found
                        /\ \A k \in 1..(i - 1) : ~MatchAt(s, k).found)
    ELSE NoMatch

\* ------------------------------------------------------------------------
\* Command (a pydantic BaseModel)
\* ------------------------------------------------------------------------
\* Optional[float]: k = "none" is None, "num" a float fromtimestamp accepts,
\* "bad" a float it rejects that is no instant (NaN)
NoTimestamp == [k |-> "none", v |-> 0]
Timestamp(n) == [k |-> "num", v |-> n]
BadTimestamp == [k |-> "bad", v |-> 0]
\* "far" a finite float later than every date datetime holds (1e12, a
\* reading in milliseconds): fromtimestamp raises ValueError
FarTimestamp == [k |-> "far", v |-> 0]

\* Optional[str]
NoSignature == [some |-> FALSE, v |-> <<>>]
Signature(sig) == [some |-> TRUE, v |-> sig]

NoCommand == [none |-> TRUE, command_type |-> <<>>, target_system |-> <<>>,
              payload |-> JNone, signature |-> NoSignature, timestamp |-> NoTimestamp]
Command(command_type, target_system, payload, signature, timestamp) ==
    [none |-> FALSE, command_type |-> command_type, target_system |-> target_system,
     payload |-> payload, signature |-> signature, timestamp |-> timestamp]

\* the (key, value) an element of the argument of dict() gives: a list of
\* two elements, or a string of two characters
PairOf(item) ==
    IF item.t = "arr" THEN item.items
    ELSE <<JStr(<<item.s[1]>>), JStr(<<item.s[2]>>)>>

IsPair(item) ==
    \/ item.t = "arr" /\ Len(item.items) = 2
    \/ item.t = "str" /\ Len(item.s) = 2

\* hash/eq of a key: True is 1 and False is 0
KeyId(key) ==
    IF key.t = "lit" /\ key.s = <<"t", "r", "u", "e">> THEN JNum(1)
    ELSE IF key.t = "lit" THEN JNum(0)
    ELSE key

\* str_validator of pydantic 1.x on a key
KeyText(key) ==
    IF key.t = "num" THEN IntStr(key.n)
    ELSE IF key.t = "lit" /\ key.s = <<"t", "r", "u", "e">> THEN <<"T", "r", "u", "e">>
    ELSE IF key.t = "lit" THEN <<"F", "a", "l", "s", "e">>
    ELSE key.s

\* dict(pairs) followed by the conversion of every key to str: the keys in
\* the order of their first occurrence, each with its last value
RECURSIVE DictOfPairs(_, _)
DictOfPairs(pairs, i) ==
    IF i > Len(pairs) THEN <<>>
    ELSE LET same(j) == KeyId(pairs[j][1]) = KeyId(pairs[i][1])
             last == CHOOSE j \in i..Len(pairs) :
                         same(j) /\ \A k \in (j + 1)..Len(pairs) : ~same(k)
         IN  IF \E j \in 1..(i - 1) : same(j) THEN DictOfPairs(pairs, i + 1)
             ELSE <<JMember(KeyText(pairs[i][1]), pairs[last][2])>>
                      \o DictOfPairs(pairs, i + 1)

\* can pydantic 1.x turn the value into a Dict[str, Any] with dict(v):
\* an empty string, or a list of pairs whose keys are hashable and not None
DictCoercible(v) ==
    \/ v.t = "str" /\ v.s = <<>>
    \/ /\ v.t = "arr"
       /\ \A i \in 1..Len(v.items) :
              /\ IsPair(v.items[i])
              /\ PairOf(v.items[i])[1].t \in {"str", "num", "lit"}
              /\ PairOf(v.items[i])[1] # JLit(<<"n", "u", "l", "l">>)

\* the validation of the payload field: Dict[str, Any].
\* ok = FALSE stands for pydantic.ValidationError
ValidatePayload(v, lax) ==
    IF v.t = "obj" THEN [ok |-> TRUE, v |-> v]
    ELSE IF lax /\ DictCoercible(v)
         THEN [ok |-> TRUE,
               v |-> JObj(IF v.t = "str" THEN <<>>
                          ELSE DictOfPairs([i \in 1..Len(v.items) |-> PairOf(v.items[i])], 1))]
    ELSE [ok |-> FALSE, v |-> JNone]

\* ------------------------------------------------------------------------
\* MessageProcessor
\* ------------------------------------------------------------------------
\* _generate_cache_key: f"{command_type}_{target_system}_{timestamp}"
GenerateCacheKey(command) ==
    command.command_type \o <<"_">> \o command.target_system \o <<"_">>
        \o FloatStr(command.timestamp.v)

\* self._command_cache.setdefault(key, command)
CachePutIfAbsent(cache, key, command) ==
    [k \in DOMAIN cache \cup {key} |-> IF k \in DOMAIN cache THEN cache[k] ELSE command]

\* a cache that keeps the last command only
CachePutEvicting(cache, key, command) ==
    [k \in {key} |-> command]

\* self._command_cache[key] = command
CachePut(cache, key, command) ==
    [k \in DOMAIN cache \cup {key} |-> IF k = key THEN command ELSE cache[k]]

\* get_cached_command: dict.get
GetCachedCommand(cache, key) ==
    IF key \in DOMAIN cache THEN cache[key] ELSE NoCommand

\* match.groups()[2], the text json.loads is given
PayloadGroup(m) == m.payload_str

\* the metadata with the two echoed entries exchanged
MetadataSwapped(message, clock, command) ==
    [timestamp |-> clock, length |-> Len(message),
     has_command |-> ~command.none,
     keys |-> IF command.none THEN {} ELSE {"command_type", "target_system"},
     command_type |-> command.target_system,
     target_system |-> command.command_type]

\* the metadata of process_message; keys tells which of the optional
\* entries the mapping has
Metadata(message, clock, command) ==
    [timestamp |-> clock, length |-> Len(message),
     has_command |-> ~command.none,
     keys |-> IF command.none THEN {} ELSE {"command_type", "target_system"},
     command_type |-> command.command_type,
     target_system |-> command.target_system]

NoMetadata == [timestamp |-> 0, length |-> 0, has_command |-> FALSE, keys |-> {},
               command_type |-> <<>>, target_system |-> <<>>]

\* ------------------------------------------------------------------------
\* Bytes: str.encode('utf-8') of ASCII text, base64.b64encode
\* ------------------------------------------------------------------------
\* the printable ASCII characters, from code 32 (code 96 is spelled out)
Ascii ==
  <<" ", "!", "\"", "#", "$", "%", "&", "'", "(", ")", "*", "+",
    ",", "-", ".", "/", "0", "1", "2", "3", "4", "5", "6", "7",
    "8", "9", ":", ";", "<", "=", ">", "?", "@", "A", "B", "C",
    "D", "E", "F", "G", "H", "I", "J", "K", "L", "M", "N", "O",
    "P", "Q", "R", "S", "T", "U", "V", "W", "X", "Y", "Z", "[",
    "\\", "]", "^", "_", "<grave>", "a", "b", "c", "d", "e", "f", "g",
    "h", "i", "j", "k", "l", "m", "n", "o", "p", "q", "r", "s",
    "t", "u", "v", "w", "x", "y", "z", "{", "|", "}", "~">>

OrdOf == [c \in {Ascii[i] : i \in 1..Len(Ascii)} |->
             31 + (CHOOSE i \in 1..Len(Ascii) : Ascii[i] = c)]

\* the character U+0000
Nul == "<nul>"

\* ord(c)
Ord(c) == IF c = Nul THEN 0 ELSE OrdOf[c]

\* s.encode('utf-8')
Utf8(s) == [i \in 1..Len(s) |-> Ord(s[i])]

B64Chars ==
  <<"A", "B", "C", "D", "E", "F", "G", "H", "I", "J", "K", "L", "M",
    "N", "O", "P", "Q", "R", "S", "T", "U", "V", "W", "X", "Y", "Z",
    "a", "b", "c", "d", "e", "f", "g", "h", "i", "j", "k", "l", "m",
    "n", "o", "p", "q", "r", "s", "t", "u", "v", "w", "x", "y", "z",
    "0", "1", "2", "3", "4", "5", "6", "7", "8", "9", "+", "/">>

RECURSIVE B64Encode(_)
\* base64.b64encode(bytes).decode('utf-8')
B64Encode(bytes) ==
    IF Len(bytes) = 0 THEN <<>>
    ELSE IF Len(bytes) = 1 THEN
        <<B64Chars[(bytes[1] \div 4) + 1],
          B64Chars[((bytes[1] % 4) * 16) + 1], "=", "=">>
    ELSE IF Len(bytes) = 2 THEN
        <<B64Chars[(bytes[1] \div 4) + 1],
          B64Chars[((bytes[1] % 4) * 16 + (bytes[2] \div 16)) + 1],
          B64Chars[((bytes[2] % 16) * 4) + 1], "=">>
    ELSE
        <<B64Chars[(bytes[1] \div 4) + 1],
          B64Chars[((bytes[1] % 4) * 16 + (bytes[2] \div 16)) + 1],
          B64Chars[((bytes[2] % 16) * 4 + (bytes[3] \div 64)) + 1],
          B64Chars[(bytes[3] % 64) + 1]>>
            \o B64Encode(SubSeq(bytes, 4, Len(bytes)))

\* ------------------------------------------------------------------------
\* SignatureVerifier
\* ------------------------------------------------------------------------
DefaultMaxAge == 300

RECURSIVE KeyBlock(_)
\* the key as HMAC uses it: a key shorter than the block of the hash (64
\* bytes for SHA-256) is padded with zero bytes up to the block, so
\* trailing zero bytes make no difference; given here without the padding
KeyBlock(key) ==
    IF Len(key) > 0 /\ key[Len(key)] = 0
    THEN KeyBlock(SubSeq(key, 1, Len(key) - 1))
    ELSE key

\* a digest that does not depend on the key
HmacDigestUnkeyed(key, data) == <<0>> \o data

\* hmac.new(key, data, sha256).digest(), taken as a keyed function without
\* collisions: the digest determines the key block and the data
HmacDigest(key, data) == <<Len(KeyBlock(key))>> \o KeyBlock(key) \o data

\* f"{timestamp}"
TimestampStr(ts) ==
    IF ts.k = "num" THEN FloatStr(ts.v)
    ELSE IF ts.k = "bad" THEN <<"n", "a", "n">>
    ELSE IF ts.k = "far"
    THEN <<"1", "0", "0", "0", "0", "0", "0", "0", "0", "0", "0", "0", "0", ".", "0">>
    ELSE <<"N", "o", "n", "e">>

\* lines 47-54: the signature of the message with the timestamp used
SignatureOf(key, message, used) ==
    LET message_with_timestamp == message \o <<"|">> \o TimestampStr(used)
    IN  B64Encode(HmacDigest(Utf8(key), Utf8(message_with_timestamp)))

\* the signatures of the verifier's own inputs, evaluated once
SignatureTable ==
    [call \in {<<"k">>, <<"j">>, <<"k", Nul>>} \X {<<>>, <<"m">>}
               \X ({BadTimestamp, FarTimestamp} \cup {Timestamp(n) : n \in 0..(MaxNow + 1)}) |->
        SignatureOf(call[1], call[2], call[3])]

\* generate_signature(message, timestamp) under the key, at the clock reading
GenerateSignatureResult(key, message, ts, clock) ==
    LET used == IF ts.k = "none" THEN Timestamp(clock) ELSE ts
    IN  IF <<key, message, used>> \in DOMAIN SignatureTable
        THEN SignatureTable[<<key, message, used>>]
        ELSE SignatureOf(key, message, used)

\* bool(timestamp): None and 0.0 are false
Truthy(ts) == ts.k \in {"bad", "far"} \/ (ts.k = "num" /\ ts.v # 0)

\* datetime.fromtimestamp(timestamp) returns
Convertible(ts) == ts.k = "num"

\* an age check that also refuses what is not yet issued
ExpiredOrFuture(ts, clock, age) == clock - ts.v > age \/ ts.v > clock

\* the age check with >= in place of >
ExpiredAtBoundary(ts, clock, age) == clock - ts.v >= age

\* datetime.now() - datetime.fromtimestamp(timestamp) > self._max_age
Expired(ts, clock, age) == clock - ts.v > age

\* a comparison of the lengths only
CompareDigestLength(a, b) == Len(a) = Len(b)

\* hmac.compare_digest(a, b)
CompareDigest(a, b) == a = b

\* the bytes a comparison looks at when it stops at the first difference
RECURSIVE CompareStepsUntilDifference(_, _)
CompareStepsUntilDifference(a, b) ==
    IF a = <<>> \/ b = <<>> THEN 0
    ELSE IF Head(a) # Head(b) THEN 1
    ELSE 1 + CompareStepsUntilDifference(Tail(a), Tail(b))

\* the bytes hmac.compare_digest(a, b) looks at: all of b, whatever a is
CompareSteps(a, b) == Len(b)

\* is_valid = hmac.compare_digest(signature.encode(), expected.encode()),
\* with the number of bytes looked at
Compared(a, b) ==
    [result |-> CompareDigest(a, b), caught |-> FALSE, raised |-> FALSE,
     expired |-> FALSE, steps |-> CompareSteps(a, b)]

\* a lone surrogate, a character str.encode('utf-8') rejects
Surrogate == "\\ud800"

\* s.encode('utf-8') does not raise UnicodeEncodeError
Encodable(s) == \A i \in 1..Len(s) : s[i] # Surrogate

\* an except clause that lets the exception through
VerifyErrorPropagates ==
    [result |-> FALSE, caught |-> FALSE, raised |-> TRUE, expired |-> FALSE,
     steps |-> 0]

\* except Exception as e: ... return False
VerifyError ==
    [result |-> FALSE, caught |-> TRUE, raised |-> FALSE, expired |-> FALSE,
     steps |-> 0]

\* a verifier that keeps the triples it accepted and refuses them when
\* they are presented again
VerifySignatureOnce(key, age, message, signature, ts, clock) ==
    IF accepted.some /\ accepted.message = message
          /\ accepted.signature = signature /\ accepted.timestamp = ts
    THEN [result |-> FALSE, caught |-> FALSE, raised |-> FALSE, expired |-> FALSE,
          steps |-> 0]
    ELSE IF Truthy(ts) /\ ~Convertible(ts)
    THEN VerifyError
    ELSE IF Truthy(ts) /\ Expired(ts, clock, age)
    THEN [result |-> FALSE, caught |-> FALSE, raised |-> FALSE, expired |-> TRUE,
          steps |-> 0]
    ELSE IF ~Encodable(message) \/ ~Encodable(signature)
    THEN VerifyError
    ELSE Compared(Utf8(signature),
                  Utf8(GenerateSignatureResult(key, message, ts, clock)))

\* verify_signature(message, signature, timestamp):
\*   result - the boolean returned
\*   caught - an exception was raised inside and caught (line 92)
\*   raised - an exception left the call
\*   expired - the age check returned False (line 78)
\*   steps - the bytes the comparison looked at (0: no comparison made)
VerifySignatureResult(key, age, message, signature, ts, clock) ==
    IF Truthy(ts) /\ ~Convertible(ts)
    THEN VerifyError
    ELSE IF Truthy(ts) /\ Expired(ts, clock, age)
    THEN [result |-> FALSE, caught |-> FALSE, raised |-> FALSE, expired |-> TRUE,
          steps |-> 0]
    ELSE IF ~Encodable(message) \/ ~Encodable(signature)
    THEN VerifyError
    ELSE Compared(Utf8(signature),
                  Utf8(GenerateSignatureResult(key, message, ts, clock)))

\* ------------------------------------------------------------------------
\* Exceptions and log texts.  A text is a sequence of pieces, each either a
\* literal of the source or characters taken from the data.
\* ------------------------------------------------------------------------
Lit(x) == <<[lit |-> x, chars |-> <<>>]>>
Chars(cs) == <<[lit |-> "", chars |-> cs]>>

\* base_only: derived from BaseException but not from Exception
\* (asyncio.CancelledError, KeyboardInterrupt, SystemExit)
NoExc == [type |-> "", base_only |-> FALSE, text |-> <<>>]
Exc(type, text) == [type |-> type, base_only |-> FALSE, text |-> text]
BaseExc(type, text) == [type |-> type, base_only |-> TRUE, text |-> text]

\* ------------------------------------------------------------------------
\* CommandRouter
\* ------------------------------------------------------------------------
\* self._handlers.setdefault(system_name, handler)
RegistryPutKeepFirst(regs, system_name, handler) ==
    [k \in DOMAIN regs \cup {system_name} |-> IF k \in DOMAIN regs THEN regs[k] ELSE handler]

\* self._handlers = {system_name: handler}
RegistryPutAlone(regs, system_name, handler) ==
    [k \in {system_name} |-> handler]

\* self._handlers[system_name] = handler
RegistryPut(regs, system_name, handler) ==
    [k \in DOMAIN regs \cup {system_name} |-> IF k = system_name THEN handler ELSE regs[k]]

\* logger.warning(f"Overwriting existing handler for {system_name}") is emitted
OverwriteWarning(regs, system_name) == system_name \in DOMAIN regs

\* the routing error naming the command type
RoutingErrorNamesType(command) ==
    Exc("ValueError", Lit("No handler found for system: ") \o Chars(command.command_type))

\* raise ValueError(f"No handler found for system: {command.target_system}")
RoutingError(command) ==
    Exc("ValueError", Lit("No handler found for system: ") \o Chars(command.target_system))

\* the handler error without the text of the original error
HandlerErrorWithoutCause(command, e) ==
    Exc("RuntimeError",
        Lit("Error handling command for ") \o Chars(command.target_system) \o Lit(": "))

\* raise RuntimeError(f"Error handling command for {target_system}: {str(e)}") from e
HandlerError(command, e) ==
    Exc("RuntimeError",
        Lit("Error handling command for ") \o Chars(command.target_system)
            \o Lit(": ") \o e.text)

\* what the except clause of route_command (line 80) makes of an exception
\* raised inside the try block
WrapInRoute(command, e) == IF e.base_only THEN e ELSE HandlerError(command, e)

\* route_command with handler_class() called outside the try block: what
\* the factory raises leaves route_command as it is
RouteStartFactoryOutsideTry(command, regs, init) ==
    IF command.target_system \notin DOMAIN regs
    THEN [events |-> <<"lookup">>, handler |-> "", exc |-> RoutingError(command)]
    ELSE IF init # NoExc
    THEN [events |-> <<"lookup", "instantiate">>,
          handler |-> regs[command.target_system],
          exc |-> init]
    ELSE [events |-> <<"lookup", "instantiate", "invoke">>,
          handler |-> regs[command.target_system],
          exc |-> NoExc]

\* route_command from its first line to the point where the handler's
\* handle_command is awaited.  init is what handler_class() does: NoExc when
\* it returns an instance, the exception it raises otherwise.
\*   events  - what happened, in order
\*   handler - the class that was instantiated ("" for none)
\*   exc     - the exception route_command raises (NoExc: the handler is awaited)
RouteStart(command, regs, init) ==
    IF command.target_system \notin DOMAIN regs
    THEN [events |-> <<"lookup">>, handler |-> "", exc |-> RoutingError(command)]
    ELSE IF init # NoExc
    THEN [events |-> <<"lookup", "instantiate">>,
          handler |-> regs[command.target_system],
          exc |-> WrapInRoute(command, init)]
    ELSE [events |-> <<"lookup", "instantiate", "invoke">>,
          handler |-> regs[command.target_system],
          exc |-> NoExc]

\* ------------------------------------------------------------------------
\* CoreControl.process_input
\* ------------------------------------------------------------------------
NoResponse == [status |-> "", message |-> ""]

\* the mapping process_input returns; keys tells which entries it has
NoReply == [status |-> "", message |-> <<>>, keys |-> {}, result |-> NoResponse,
            metadata |-> NoMetadata, error |-> <<>>]

NoCommandReply(metadata) ==
    [status |-> "error", message |-> Lit("No valid command found"),
     keys |-> {"status", "message", "metadata"}, result |-> NoResponse,
     metadata |-> metadata, error |-> <<>>]

InvalidSignatureReply(metadata) ==
    [status |-> "error", message |-> Lit("Invalid command signature"),
     keys |-> {"status", "message", "metadata"}, result |-> NoResponse,
     metadata |-> metadata, error |-> <<>>]

SuccessReply(response, metadata) ==
    [status |-> "success", message |-> Lit("Command executed successfully"),
     keys |-> {"status", "message", "result", "metadata"}, result |-> response,
     metadata |-> metadata, error |-> <<>>]

\* the except clause of process_input (line 83); metadata is {'error': str(e)}
ErrorReply(e) ==
    [status |-> "error", message |-> Lit("Error processing command: ") \o e.text,
     keys |-> {"status", "message", "metadata"}, result |-> NoResponse,
     metadata |-> NoMetadata, error |-> e.text]

RECURSIVE PyRepr(_), PyReprItems(_, _)
\* repr() of a parsed value: str(command.payload) is PyRepr of the dict
PyRepr(v) ==
    IF v.t = "num" THEN IntStr(v.n)
    ELSE IF v.t = "str" THEN <<"'">> \o v.s \o <<"'">>
    ELSE IF v.t = "lit" THEN
        (IF v.s = <<"n", "u", "l", "l">> THEN <<"N", "o", "n", "e">>
         ELSE IF v.s = <<"t", "r", "u", "e">> THEN <<"T", "r", "u", "e">>
         ELSE <<"F", "a", "l", "s", "e">>)
    ELSE IF v.t = "arr" THEN <<"[">> \o PyReprItems(v.items, 1) \o <<"]">>
    ELSE IF v.t = "obj" THEN
        <<"{">> \o PyReprItems([i \in 1..Len(v.items) |->
                                   JMember(v.items[i].s, DictGet(v, v.items[i].s))], 1)
            \o <<"}">>
    ELSE <<"'">> \o v.s \o <<"'", ":", " ">> \o PyRepr(v.items[1])

PyReprItems(items, i) ==
    IF i > Len(items) THEN <<>>
    ELSE IF \E j \in 1..(i - 1) : items[j].t = "member" /\ items[j].s = items[i].s
    THEN PyReprItems(items, i + 1)
    ELSE (IF i > 1 THEN <<",", " ">> ELSE <<>>)
             \o PyRepr(items[i]) \o PyReprItems(items, i + 1)

\* bool(command.signature): None and "" are false
HasSignature(command) == command.signature.some /\ command.signature.v # <<>>

\* ------------------------------------------------------------------------
\* Call records (the last call of each operation and what it gave) and the
\* dispatch tasks
\* ------------------------------------------------------------------------
\* the last handler call: what it was given, what the platform did (env)
\* and what it gave
NoDelivery == [handler |-> "", payload |-> JNone, env |-> <<>>,
               response |-> NoResponse, delivered |-> <<>>, opened |-> 0,
               smtp_before |-> "none", raised |-> NoExc]

NoExtracted == [op |-> "", message |-> <<>>, command |-> NoCommand,
                metadata |-> NoMetadata, cache_before |-> <<>>]
NoIssued == [some |-> FALSE, message |-> <<>>, timestamp |-> NoTimestamp,
             signature |-> <<>>, key |-> <<>>]
NoVerified == [some |-> FALSE, message |-> <<>>, signature |-> <<>>,
               timestamp |-> NoTimestamp, key |-> <<>>, age |-> 0, at |-> 0,
               result |-> FALSE, caught |-> FALSE, raised |-> FALSE,
               expired |-> FALSE, steps |-> 0]
\* the call an observer of the verifier remembers: a triple (message,
\* signature, timestamp) that verify_signature accepted, with the key in
\* force and the clock reading of that call
NoAccepted == [some |-> FALSE, message |-> <<>>, signature |-> <<>>,
               timestamp |-> NoTimestamp, key |-> <<>>, at |-> 0]

\* no RiskManager has been constructed
NoRiskManager == [max_risk_per_trade |-> 0, max_daily_risk |-> 0, account_balance |-> 0,
                  daily_risk_used |-> 0, last_reset |-> 0]

\* result: the position size returned; used_before: daily_risk_used when
\* the call was made; day: the date of the call; reset: the call found a
\* later date than _last_reset
NoSized == [some |-> FALSE, entry_price |-> 0, stop_loss |-> 0, confidence |-> 0,
            risk_amount |-> 0, result |-> 0, used_before |-> 0, day |-> 0,
            reset |-> FALSE]

\* the sources a DataCollector is given, by source_id
SourceIds == {"feed", "api"}

\* DataSource(**source_config) of each: a feed read every 2 seconds and an
\* API read every 3 seconds
DataSource(source_id) ==
    [source_id |-> source_id,
     source_type |-> IF source_id = "feed" THEN "rss" ELSE "api",
     update_interval |-> IF source_id = "feed" THEN 2 ELSE 3]

\* datetime.min: earlier than every clock reading by more than any interval
DatetimeMin == 0 - 1000

\* ids that entries of a feed and items of an API answer carry
EntryIds == {"a", "b"}
\* an item of an API answer that is no mapping: item.get raises on it
NoMapping == "<no mapping>"
ItemIds == EntryIds

\* DataCollector(): no source, nothing processed
NewDataCollector == [sources |-> <<>>, last_update |-> <<>>, processed_items |-> {}]

\* _running, and the place of the loop of start_monitoring: pos sources of
\* the dictionary were handled in the pass under way (0: between passes),
\* awaited: the step before awaited collect_from_source, changed: the
\* dictionary got a new key during the pass
NoMonitor == [running |-> FALSE, pos |-> 0, awaited |-> FALSE, changed |-> FALSE]

\* no collection was made: returned counts the result lists an id appeared
\* in, failed holds the ids whose processing failed, last_call is the last
\* collect_from_source call (refused: the ids its answer carried and it
\* did not return), passes holds per source whether start_monitoring
\* collected it, the clock reading of the last of these collections and
\* whether the one before it was less than update_interval seconds earlier
NoCollection == [some |-> FALSE, source_id |-> "", items |-> <<>>, refused |-> {}]
NoGathered == [returned |-> [i \in ItemIds |-> 0], failed |-> {},
               last_call |-> NoCollection,
               passes |-> [s \in SourceIds |-> [some |-> FALSE, last |-> 0,
                                                 early |-> FALSE]]]

\* first, latest: for every system name, the handler of the first and of
\* the most recent register_handler call made for it
NoRegistered == [some |-> FALSE, system_name |-> <<>>, handler |-> "",
                 warning |-> FALSE, first |-> <<>>, latest |-> <<>>]

\* the record once the call it describes is over
CallsKept(r) == [NoRegistered EXCEPT !.first = r.first, !.latest = r.latest]

\* pc: "idle" (no call yet), "awaiting" (inside await handler.handle_command),
\*     "done" (the call returned or raised)
\* outcome: "" | "returned" | "raised"; response is what route_command
\* returned, reply what process_input returned, exc what the call raised;
\* raised is the exception the handler, its constructor or the processor raised
\* instance: the handler object made for the call (0: none), numbered by
\*     the handler_class() call that made it; handle_command is awaited on
\*     it unless its constructor raised
\* handled: what handle_command returned
\* received: the command handle_command was called with (NoCommand: not called)
\* hangs: "" | "suspended" (the handler waits for ever at an await of its
\*     own) | "blocking" (it waits for ever inside a synchronous call)
IdleTask == [pc |-> "idle", entry |-> "", input |-> <<>>, command |-> NoCommand,
             metadata |-> NoMetadata, events |-> <<>>, handler |-> "",
             raised |-> NoExc, outcome |-> "",
             response |-> NoResponse, reply |-> NoReply, exc |-> NoExc,
             instance |-> 0, handled |-> NoResponse, hangs |-> "",
             received |-> NoCommand]

Tasks == 1..NumTasks

\* the record of a call that has completed is dropped when the next
\* operation starts
ClearDone(tk) == [t \in Tasks |-> IF tk[t].pc = "done" THEN IdleTask ELSE tk[t]]

\* the events of a call, as a set
EventSet(tk) == {tk.events[i] : i \in 1..Len(tk.events)}

\* a handler object kept by the router and handed out again
PooledInstance(count) == 1

\* handler = handler_class(): the object made by the call that follows
\* count earlier ones
NewInstance(count) == count + 1

\* the number of handler_class() calls made once the call tk has got this far
InstancesAfter(tk, count) ==
    IF "instantiate" \in EventSet(tk) THEN count + 1 ELSE count

\* the call with the handler object its handler_class() call made
WithInstance(tk, count) ==
    [tk EXCEPT !.instance = IF "instantiate" \in EventSet(tk) THEN NewInstance(count)
                            ELSE 0]

\* ------------------------------------------------------------------------
\* Inputs
\* ------------------------------------------------------------------------
Keys == {<<"k">>, <<"j">>}
\* the keys of a rotation: two keys, and one of them followed by U+0000
RotationKeys == Keys \cup {<<"k", Nul>>}
MaxAges == {1, DefaultMaxAge}
\* the clock readings at which calls are made: the first instants, and
\* the instants from one maximum age later on
ClockReadings == {n \in 0..MaxNow : n <= 1 \/ n >= DefaultMaxAge}

\* the messages signed and verified through the verifier's own interface
SignMessages == {<<>>, <<"m">>}
TimestampInputs ==
    {NoTimestamp, BadTimestamp, FarTimestamp}
        \cup {Timestamp(n) : n \in {0, 1, MaxNow + 1}}

\* a signature with the character at position i replaced by another one
Mutate(sig, i) ==
    [sig EXCEPT ![i] = IF sig[i] = "A" THEN "B" ELSE "A"]

\* the calls of verify_signature a holder of an issued signature makes:
\* the signature as issued, with any message and timestamp; the signature
\* altered (every single-character mutation, a truncation, an extension,
\* the empty string), with the message and timestamp it was issued for
VerifyInputs(held) ==
    IF held.some
    THEN {<<m, held.signature, ts>> : m \in SignMessages, ts \in TimestampInputs}
            \cup {<<held.message, Mutate(held.signature, i), held.timestamp>> :
                      i \in 1..Len(held.signature)}
            \cup {<<held.message, sig, held.timestamp>> :
                      sig \in {SubSeq(held.signature, 1, Len(held.signature) - 1),
                               Append(held.signature, "="), <<>>,
                               Append(held.signature, Surrogate)}}
    ELSE {<<m, sig, ts>> : m \in SignMessages, sig \in {<<"A">>, <<Surrogate>>},
                           ts \in TimestampInputs}

\* the wire format: #<command_type>@<target_system>{<json-object>}
RECURSIVE JsonDumps(_), JsonDumpsItems(_, _)
JsonDumps(v) ==
    IF v.t = "num" THEN IntStr(v.n)
    ELSE IF v.t = "str" THEN <<"\"">> \o v.s \o <<"\"">>
    ELSE IF v.t = "lit" THEN v.s
    ELSE IF v.t = "arr" THEN <<"[">> \o JsonDumpsItems(v.items, 1) \o <<"]">>
    ELSE IF v.t = "obj" THEN <<"{">> \o JsonDumpsItems(v.items, 1) \o <<"}">>
    ELSE <<"\"">> \o v.s \o <<"\"", ":">> \o JsonDumps(v.items[1])

JsonDumpsItems(items, i) ==
    IF i > Len(items) THEN <<>>
    ELSE (IF i > 1 THEN <<",">> ELSE <<>>)
             \o JsonDumps(items[i]) \o JsonDumpsItems(items, i + 1)

WireText(command_type, target_system, object) ==
    <<"#">> \o command_type \o <<"@">> \o target_system \o JsonDumps(object)

WireTypes == {<<"p", "i", "n", "g">>, <<"a", "_", "b">>}
WireTargets == {<<"s", "y", "s", "t", "e", "m">>, <<"x">>}
WireObjects ==
    {JObj(<<JMember(<<"a">>, JNum(1))>>),
     JObj(<<JMember(<<"c", "h", "e", "c", "k">>, JStr(<<"a", "l", "l">>)),
            JMember(<<"n">>, JArr(<<JNum(1), JNum(20)>>))>>)}
\* the text around the command: <<before, after>>
WireContexts == {<<<<>>, <<>>>>, <<<<"g", "o", " ">>, <<" ", "o", "k">>>>}

WireMessages ==
    {c[1] \o WireText(ct, ts, o) \o c[2] :
        c \in WireContexts, ct \in WireTypes, ts \in WireTargets, o \in WireObjects}

\* text that is not of the wire format
OtherMessages ==
    {<<"n", "o", " ", "c", "o", "m", "m", "a", "n", "d">>,
     <<"#", "b", "a", "d", "@", "x", "{", "n", "o", "t", "-", "j", "s", "o", "n", "}">>,
     <<"#", "a", "@", "x", "{", "}">>,
     <<"#", "a", "@", "x", "{", "[", "]", "}">>,
     <<"#", "a", "@", "x", "{", "1", "}">>,
     <<"#", "a", "@", "x", "{", "[", "[", "\"", "a", "\"", ",", "1", "]", "]", "}">>,
     <<"#", "a", "@", "x", "{", "n", "o", "}", "#", "a", "@", "x", "{", "[", "]", "}">>,
     <<"#", "a", "@", "x", "{", "[", "]", "}", "#", "b", "@", "y", "{", "[", "]", "}">>,
     <<"#", "a", "_", "b", "@", "c", "{", "[", "]", "}">>,
     <<"#", "a", "@", "b", "_", "c", "{", "[", "]", "}">>}

Messages == WireMessages \cup OtherMessages

\* does the message contain the wire text of these three
ContainsWire(message, command_type, target_system, object) ==
    LET w == WireText(command_type, target_system, object)
    IN  \E i \in 1..Len(message) : StartsWith(message, i, w)

\* re.search and json.loads on the messages of the model, evaluated once
SearchTable == [message \in Messages |-> ReSearch(message)]
LoadsTable == [message \in Messages |-> JsonLoads(PayloadGroup(ReSearch(message)))]

\* match = re.search(self.COMMAND_PATTERN, message)
Search(message) ==
    IF message \in DOMAIN SearchTable THEN SearchTable[message] ELSE ReSearch(message)

\* json.loads(payload_str) for the match m of the message
Loads(message, m) ==
    IF message \in DOMAIN LoadsTable THEN LoadsTable[message]
    ELSE JsonLoads(PayloadGroup(m))

\* self._command_cache[cache_key] = command; return command
CommandCached(command, cache) ==
    [command |-> command,
     cache |-> CachePut(cache, GenerateCacheKey(command), command)]

\* the Command built with the matched text kept as its signature
CommandBuiltSigned(m, valid, cache, clock) ==
    IF ~valid.ok THEN [command |-> NoCommand, cache |-> cache]
    ELSE CommandCached(Command(m.command_type, m.target_system, valid.v,
                               Signature(m.command_type), Timestamp(clock)),
                       cache)

\* Command(command_type=..., target_system=..., payload=payload, timestamp=...)
\* with the payload as pydantic validated it (valid)
CommandBuilt(m, valid, cache, clock) ==
    IF ~valid.ok THEN [command |-> NoCommand, cache |-> cache]
    ELSE CommandCached(Command(m.command_type, m.target_system, valid.v,
                               NoSignature, Timestamp(clock)),
                       cache)

\* payload = json.loads(payload_str), with what json.loads gave (loaded)
PayloadLoaded(m, loaded, cache, clock, lax) ==
    IF ~loaded.ok THEN [command |-> NoCommand, cache |-> cache]
    ELSE CommandBuilt(m, ValidatePayload(loaded.v, lax), cache, clock)

\* a message without a match yields a Command with empty fields
CommandMatchedOrEmpty(message, m, cache, clock, lax) ==
    IF ~m.found
    THEN CommandCached(Command(<<>>, <<>>, JObj(<<>>), NoSignature, Timestamp(clock)),
                       cache)
    ELSE PayloadLoaded(m, Loads(message, m), cache, clock, lax)

\* if not match: return None, with what re.search gave (m)
CommandMatched(message, m, cache, clock, lax) ==
    IF ~m.found THEN [command |-> NoCommand, cache |-> cache]
    ELSE PayloadLoaded(m, Loads(message, m), cache, clock, lax)

\* extract_command(message) with the cache and the clock as they are:
\* the Command returned (NoCommand for None) and the cache afterwards
ExtractCommandResult(message, cache, clock, lax) ==
    CommandMatched(message, Search(message), cache, clock, lax)

\* ------------------------------------------------------------------------
\* The clock
\* ------------------------------------------------------------------------
\* time passes between two calls; the records of the calls made are dropped
Tick(reading) ==
    /\ reading > now
    /\ now' = reading
    /\ extracted' = NoExtracted
    /\ verified' = NoVerified
    /\ registered' = CallsKept(registered)
    /\ task' = ClearDone(task)
    /\ UNCHANGED <<gathered, monitor, collector, sized, today, risk_manager, accepted, smtp, delivery, instances, lax_dict, command_cache, secret_key, max_age, issued, handlers,
                   initialized>>

\* ------------------------------------------------------------------------
\* MessageProcessor: the calls
\* ------------------------------------------------------------------------
\* the call made and what it gave (r), with the cache it leaves
Extracted(op, message, r, metadata) ==
    /\ Cardinality(DOMAIN r.cache) <= MaxCache
    /\ command_cache' = r.cache
    /\ extracted' = [op |-> op, message |-> message,
                     command |-> r.command, metadata |-> metadata,
                     cache_before |-> command_cache]

ExtractCommand(message) ==
    LET r == ExtractCommandResult(message, command_cache, now, lax_dict)
    IN  /\ Extracted("extract_command", message, r, NoMetadata)
        /\ UNCHANGED <<gathered, monitor, collector, sized, today, risk_manager, accepted, smtp, delivery, instances, now, lax_dict, secret_key, max_age, issued, verified,
                       handlers, initialized, registered, task>>

\* the metadata process_message adds to what extract_command gave (r)
WithMetadata(message, clock, r) ==
    [command |-> r.command, metadata |-> Metadata(message, clock, r.command),
     cache |-> r.cache]

\* process_message(message): the pair (command, metadata) and the cache afterwards
ProcessMessageResult(message, cache, clock, lax) ==
    WithMetadata(message, clock, ExtractCommandResult(message, cache, clock, lax))

\* the call of process_message and what it gave (r)
Processed(message, r) == Extracted("process_message", message, r, r.metadata)

ProcessMessage(message) ==
    LET r == ProcessMessageResult(message, command_cache, now, lax_dict)
    IN  /\ Processed(message, r)
        /\ UNCHANGED <<gathered, monitor, collector, sized, today, risk_manager, accepted, smtp, delivery, instances, now, lax_dict, secret_key, max_age, issued, verified,
                       handlers, initialized, registered, task>>

\* clear_cache()
ClearCache ==
    /\ command_cache' = <<>>
    /\ extracted' = [NoExtracted EXCEPT !.op = "clear_cache",
                                        !.cache_before = command_cache]
    /\ UNCHANGED <<gathered, monitor, collector, sized, today, risk_manager, accepted, smtp, delivery, instances, now, lax_dict, secret_key, max_age, issued, verified,
                   handlers, initialized, registered, task>>

\* the keys a caller asks for: those the cache holds or held before the
\* last call, and one that was never made
AskedKeys ==
    DOMAIN command_cache \cup DOMAIN extracted.cache_before \cup {<<"a", "_", "x">>}

\* get_cached_command(cache_key)
GetCached(cache_key) ==
    /\ extracted' = [op |-> "get_cached_command", message |-> cache_key,
                     command |-> GetCachedCommand(command_cache, cache_key),
                     metadata |-> NoMetadata, cache_before |-> command_cache]
    /\ UNCHANGED <<gathered, monitor, collector, sized, today, risk_manager, accepted, smtp, delivery, instances, now, lax_dict, command_cache, secret_key, max_age, issued,
                   verified, handlers, initialized, registered, task>>

\* ------------------------------------------------------------------------
\* SignatureVerifier: the calls
\* ------------------------------------------------------------------------
GenerateSignature(message, ts) ==
    /\ issued' = [some |-> TRUE, message |-> message, timestamp |-> ts,
                  signature |-> GenerateSignatureResult(secret_key, message, ts, now),
                  key |-> secret_key]
    /\ verified' = NoVerified
    /\ UNCHANGED <<gathered, monitor, collector, sized, today, risk_manager, accepted, smtp, delivery, instances, now, lax_dict, command_cache, extracted, secret_key, max_age,
                   handlers, initialized, registered, task>>

VerifySignature(message, signature, ts) ==
    LET r == VerifySignatureResult(secret_key, max_age, message, signature, ts, now)
    IN  /\ verified' = [some |-> TRUE, message |-> message, signature |-> signature,
                        timestamp |-> ts, key |-> secret_key, age |-> max_age,
                        at |-> now, result |-> r.result, caught |-> r.caught,
                        raised |-> r.raised, expired |-> r.expired,
                        steps |-> r.steps]
        /\ UNCHANGED <<gathered, monitor, collector, sized, today, risk_manager, accepted, smtp, delivery, instances, now, lax_dict, command_cache, extracted, secret_key, max_age,
                       issued, handlers, initialized, registered, task>>

\* the triple of a call, as an observer keeps it
SameTriple(a, message, signature, ts) ==
    a.some /\ a.message = message /\ a.signature = signature /\ a.timestamp = ts

\* verify_signature(message, signature, timestamp), watched by an observer
\* who remembers the first call that accepted a triple
VerifyObserved(message, signature, ts) ==
    LET r == VerifySignatureResult(secret_key, max_age, message, signature, ts, now)
    IN  /\ verified' = [some |-> TRUE, message |-> message, signature |-> signature,
                        timestamp |-> ts, key |-> secret_key, age |-> max_age,
                        at |-> now, result |-> r.result, caught |-> r.caught,
                        raised |-> r.raised, expired |-> r.expired,
                        steps |-> r.steps]
        /\ accepted' = IF r.result /\ ~SameTriple(accepted, message, signature, ts)
                       THEN [some |-> TRUE, message |-> message,
                             signature |-> signature, timestamp |-> ts,
                             key |-> secret_key, at |-> now]
                       ELSE accepted
        /\ UNCHANGED <<gathered, monitor, collector, sized, today, risk_manager, smtp, delivery, instances, now, lax_dict, command_cache, extracted,
                       secret_key, max_age, issued, handlers, initialized, registered,
                       task>>

\* an update that also puts the maximum age back to its default
UpdateSecretKeyResetsAge(new_secret_key) ==
    /\ secret_key' = new_secret_key
    /\ max_age' = DefaultMaxAge
    /\ verified' = NoVerified
    /\ UNCHANGED <<gathered, monitor, collector, sized, today, risk_manager, accepted, smtp, delivery, instances, now, lax_dict, command_cache, extracted, issued,
                   handlers, initialized, registered, task>>

\* update_secret_key(new_secret_key)
UpdateSecretKey(new_secret_key) ==
    /\ secret_key' = new_secret_key
    /\ verified' = NoVerified
    /\ UNCHANGED <<gathered, monitor, collector, sized, today, risk_manager, accepted, smtp, delivery, instances, now, lax_dict, command_cache, extracted, max_age, issued,
                   handlers, initialized, registered, task>>

\* ------------------------------------------------------------------------
\* Specifications
\* ------------------------------------------------------------------------
\* a MessageProcessor on its own, under either pydantic
InitParse ==
    /\ now = 0
    /\ lax_dict \in BOOLEAN
    /\ command_cache = <<>>
    /\ extracted = NoExtracted
    /\ secret_key = <<"k">>
    /\ max_age = DefaultMaxAge
    /\ issued = NoIssued
    /\ verified = NoVerified
    /\ handlers = <<>>
    /\ initialized = FALSE
    /\ registered = NoRegistered
    /\ task = [t \in Tasks |-> IdleTask]
    /\ instances = 0
    /\ smtp = "none"
    /\ delivery = NoDelivery
    /\ accepted = NoAccepted
    /\ risk_manager = NoRiskManager
    /\ today = 0
    /\ sized = NoSized
    /\ collector = NewDataCollector
    /\ monitor = NoMonitor
    /\ gathered = NoGathered

NextParse ==
    \/ \E message \in Messages : ExtractCommand(message)
    \/ \E message \in Messages : ProcessMessage(message)
    \/ ClearCache
    \/ \E cache_key \in AskedKeys : GetCached(cache_key)
    \/ \E reading \in ClockReadings : Tick(reading)

SpecParse == InitParse /\ [][NextParse]_vars

\* a SignatureVerifier on its own: SignatureVerifier(secret_key, max_age)
InitVerifier ==
    /\ now = 0
    /\ lax_dict = FALSE
    /\ command_cache = <<>>
    /\ extracted = NoExtracted
    /\ secret_key \in Keys
    /\ max_age \in MaxAges
    /\ issued = NoIssued
    /\ verified = NoVerified
    /\ handlers = <<>>
    /\ initialized = FALSE
    /\ registered = NoRegistered
    /\ task = [t \in Tasks |-> IdleTask]
    /\ instances = 0
    /\ smtp = "none"
    /\ delivery = NoDelivery
    /\ accepted = NoAccepted
    /\ risk_manager = NoRiskManager
    /\ today = 0
    /\ sized = NoSized
    /\ collector = NewDataCollector
    /\ monitor = NoMonitor
    /\ gathered = NoGathered

NextVerifier ==
    \/ \E message \in SignMessages, ts \in TimestampInputs :
           GenerateSignature(message, ts)
    \/ \E call \in VerifyInputs(issued) : VerifySignature(call[1], call[2], call[3])
    \/ \E key \in Keys : UpdateSecretKey(key)
    \/ \E reading \in ClockReadings : Tick(reading)

SpecVerifier == InitVerifier /\ [][NextVerifier]_vars

\* a SignatureVerifier whose key is replaced while signatures issued
\* under earlier keys are presented again
InitRotation ==
    /\ now = 0
    /\ lax_dict = FALSE
    /\ command_cache = <<>>
    /\ extracted = NoExtracted
    /\ secret_key \in RotationKeys
    /\ max_age = DefaultMaxAge
    /\ issued = NoIssued
    /\ verified = NoVerified
    /\ handlers = <<>>
    /\ initialized = FALSE
    /\ registered = NoRegistered
    /\ task = [t \in Tasks |-> IdleTask]
    /\ instances = 0
    /\ smtp = "none"
    /\ delivery = NoDelivery
    /\ accepted = NoAccepted
    /\ risk_manager = NoRiskManager
    /\ today = 0
    /\ sized = NoSized
    /\ collector = NewDataCollector
    /\ monitor = NoMonitor
    /\ gathered = NoGathered

NextRotation ==
    \/ \E message \in SignMessages, ts \in {NoTimestamp, Timestamp(0), Timestamp(1)} :
           GenerateSignature(message, ts)
    \/ \E message \in SignMessages, ts \in TimestampInputs :
           issued.some /\ VerifySignature(message, issued.signature, ts)
    \/ \E key \in RotationKeys : UpdateSecretKey(key)
    \/ \E reading \in ClockReadings : Tick(reading)

SpecRotation == InitRotation /\ [][NextRotation]_vars

\* the triples a holder presents: the signature just issued or the triple
\* accepted before, with the message and timestamp that belong to it or
\* with another timestamp
ReplayInputs ==
    (IF issued.some
     THEN {<<issued.message, issued.signature, ts>> :
              ts \in {issued.timestamp, NoTimestamp}}
     ELSE {})
      \cup (IF accepted.some
            THEN {<<accepted.message, accepted.signature, accepted.timestamp>>}
            ELSE {})

\* a SignatureVerifier to which accepted triples are presented again
InitReplay ==
    /\ now = 0
    /\ lax_dict = FALSE
    /\ command_cache = <<>>
    /\ extracted = NoExtracted
    /\ secret_key \in Keys
    /\ max_age \in MaxAges
    /\ issued = NoIssued
    /\ verified = NoVerified
    /\ handlers = <<>>
    /\ initialized = FALSE
    /\ registered = NoRegistered
    /\ task = [t \in Tasks |-> IdleTask]
    /\ instances = 0
    /\ smtp = "none"
    /\ delivery = NoDelivery
    /\ accepted = NoAccepted
    /\ risk_manager = NoRiskManager
    /\ today = 0
    /\ sized = NoSized
    /\ collector = NewDataCollector
    /\ monitor = NoMonitor
    /\ gathered = NoGathered

NextReplay ==
    \/ \E message \in SignMessages, ts \in TimestampInputs :
           GenerateSignature(message, ts)
    \/ \E call \in ReplayInputs : VerifyObserved(call[1], call[2], call[3])
    \/ \E key \in Keys : UpdateSecretKey(key)
    \/ \E reading \in ClockReadings : Tick(reading)

SpecReplay == InitReplay /\ [][NextReplay]_vars

\* ------------------------------------------------------------------------
\* CommandRouter and CoreControl: inputs
\* ------------------------------------------------------------------------
Systems == {<<"x">>, <<"y">>}
HandlerClasses == {"HandlerA", "HandlerB"}

SomePayload == JObj(<<JMember(<<"a">>, JNum(1))>>)

\* the commands handed to route_command directly
RouteCommands ==
    {Command(<<"p">>, system, SomePayload, NoSignature, NoTimestamp) :
        system \in Systems \cup {<<"z">>}}

\* what handler_class() does: it returns an instance (NoExc) or raises, as
\* the shipped handlers do when their credential is not configured
InitOutcomes ==
    {NoExc, Exc("ValueError", Lit("TOKEN environment variable not set"))}

\* what handle_command does once awaited: it returns a response or raises
Responses == {[status |-> "success", message |-> "sent"],
              [status |-> "error", message |-> "no destination"]}
HandlerErrors == {Exc("KeyError", Lit("boom")), BaseExc("CancelledError", <<>>)}

\* the texts given to process_input
CoreMessages ==
    {<<"n", "o", " ", "c", "o", "m", "m", "a", "n", "d">>,
     WireText(<<"p", "i", "n", "g">>, <<"x">>, SomePayload),
     <<"#", "a", "@", "x", "{", "[", "]", "}">>}

\* the key CoreControl gives its verifier (SIGNATURE_KEY)
CoreKey == <<"k">>

\* what a processor put in place of self.processor gives process_input:
\* it raises (exc), or returns a command (possibly None) with its metadata
StubOutcome(exc, command) ==
    [exc |-> exc, command |-> command,
     metadata |-> Metadata(<<>>, 0, command)]

SignedCommand(signature, ts) ==
    Command(<<"p">>, <<"x">>, SomePayload, signature, ts)

ValidSignature(ts) ==
    Signature(GenerateSignatureResult(CoreKey, PyRepr(SomePayload), ts, 0))

StubOutcomes ==
    {StubOutcome(Exc("TypeError", Lit("bad message")), NoCommand),
     StubOutcome(BaseExc("KeyboardInterrupt", <<>>), NoCommand),
     StubOutcome(NoExc, NoCommand),
     StubOutcome(NoExc, SignedCommand(NoSignature, NoTimestamp)),
     StubOutcome(NoExc, SignedCommand(Signature(<<>>), Timestamp(1))),
     StubOutcome(NoExc, SignedCommand(ValidSignature(Timestamp(1)), Timestamp(1))),
     StubOutcome(NoExc, SignedCommand(Signature(<<"A">>), Timestamp(1))),
     StubOutcome(NoExc, SignedCommand(ValidSignature(Timestamp(1)), NoTimestamp))}

\* ------------------------------------------------------------------------
\* CommandRouter: the calls
\* ------------------------------------------------------------------------
\* the one thread that runs the event loop is inside a call that does not
\* return (EmailHandler opens its SMTP connection with smtplib, without a
\* timeout, inside handle_command): no coroutine is resumed and no call is made
LoopHeld == \E t \in Tasks : task[t].hangs = "blocking"

\* the call of task t has got as far as tk
Dispatched(t, tk) ==
    /\ InstancesAfter(tk, instances) <= MaxInstances
    /\ instances' = InstancesAfter(tk, instances)
    /\ task' = [ClearDone(task) EXCEPT ![t] = WithInstance(tk, instances)]

\* a registration that reaches the calls in flight: their handler is
\* looked up again when they resume
RegisterHandlerRebinding(system_name, handler) ==
    /\ ~LoopHeld
    /\ handlers' = RegistryPut(handlers, system_name, handler)
    /\ registered' = [some |-> TRUE, system_name |-> system_name, handler |-> handler,
                      warning |-> OverwriteWarning(handlers, system_name),
                      first |-> [k \in DOMAIN registered.first \cup {system_name} |->
                                    IF k \in DOMAIN registered.first
                                    THEN registered.first[k] ELSE handler],
                      latest |-> [k \in DOMAIN registered.latest \cup {system_name} |->
                                     IF k = system_name THEN handler
                                     ELSE registered.latest[k]]]
    /\ task' = [t \in Tasks |->
                   IF task[t].pc = "awaiting" /\ task[t].command.target_system = system_name
                   THEN [task[t] EXCEPT !.handler = handler]
                   ELSE ClearDone(task)[t]]
    /\ UNCHANGED <<gathered, monitor, collector, sized, today, risk_manager, accepted, smtp, delivery, instances, now, lax_dict, command_cache, extracted,
                   secret_key, max_age, issued, verified, initialized>>

RegisterHandler(system_name, handler) ==
    /\ ~LoopHeld
    /\ handlers' = RegistryPut(handlers, system_name, handler)
    /\ registered' = [some |-> TRUE, system_name |-> system_name, handler |-> handler,
                      warning |-> OverwriteWarning(handlers, system_name),
                      first |-> [k \in DOMAIN registered.first \cup {system_name} |->
                                    IF k \in DOMAIN registered.first
                                    THEN registered.first[k] ELSE handler],
                      latest |-> [k \in DOMAIN registered.latest \cup {system_name} |->
                                     IF k = system_name THEN handler
                                     ELSE registered.latest[k]]]
    /\ task' = ClearDone(task)
    /\ UNCHANGED <<gathered, monitor, collector, sized, today, risk_manager, accepted, smtp, delivery, instances, now, lax_dict, command_cache, extracted, secret_key, max_age,
                   issued, verified, initialized>>

\* the command handed to the handler without the signature it was checked for
HandedOverUnsigned(command) == [command EXCEPT !.signature = NoSignature]

\* handler.handle_command(command): the command the handler is called with
HandedOver(command) == command

\* the task after a call of entry point entry has run up to its first
\* suspension: it is awaiting the handler, or the call is over
Started(entry, input, command, metadata, events, handler, raised, exc, reply) ==
    [pc |-> IF exc = NoExc /\ reply = NoReply THEN "awaiting" ELSE "done",
     entry |-> entry, input |-> input, command |-> command, metadata |-> metadata,
     events |-> events, handler |-> handler, raised |-> raised,
     outcome |-> IF exc # NoExc THEN "raised"
                 ELSE IF reply # NoReply THEN "returned" ELSE "",
     response |-> NoResponse, reply |-> reply, exc |-> exc,
     instance |-> 0, handled |-> NoResponse, hangs |-> "",
     received |-> IF "invoke" \in {events[i] : i \in 1..Len(events)}
                  THEN HandedOver(command) ELSE NoCommand]

\* route_command(command), up to the await of the handler
RouteCommand(t, command, init) ==
    LET r == RouteStart(command, handlers, init)
    IN  /\ ~LoopHeld
        /\ task[t].pc # "awaiting"
        /\ init # NoExc => command.target_system \in DOMAIN handlers
        /\ initialized' = TRUE
        /\ Dispatched(t, Started("route_command", <<>>, command, NoMetadata,
                                 r.events, r.handler, init, r.exc, NoReply))
        /\ registered' = CallsKept(registered)
        /\ UNCHANGED <<gathered, monitor, collector, sized, today, risk_manager, accepted, smtp, delivery, now, lax_dict, command_cache, extracted, secret_key, max_age,
                       issued, verified, handlers>>

\* the response with its status overwritten
RouteReturnSuccessOnly(response) == [response EXCEPT !.status = "success"]

\* response = await handler.handle_command(command); return response
RouteReturn(response) == response

\* handle_command returns the response to the awaiting call
HandlerReturn(t, response) ==
    /\ ~LoopHeld
    /\ task[t].pc = "awaiting" /\ task[t].hangs = ""
    /\ task' = [ClearDone(task) EXCEPT ![t] =
                   [task[t] EXCEPT !.pc = "done",
                                   !.events = Append(task[t].events, "return"),
                                   !.outcome = "returned",
                                   !.handled = response,
                                   !.response = RouteReturn(response),
                                   !.reply = IF task[t].entry = "process_input"
                                             THEN SuccessReply(RouteReturn(response),
                                                               task[t].metadata)
                                             ELSE NoReply]]
    /\ registered' = CallsKept(registered)
    /\ UNCHANGED <<gathered, monitor, collector, sized, today, risk_manager, accepted, smtp, delivery, instances, now, lax_dict, command_cache, extracted, secret_key, max_age,
                   issued, verified, handlers, initialized>>

\* process_input without its except clause
CoreOutcomeReraise(e) == [exc |-> e, reply |-> NoReply]

\* what process_input makes of an exception raised inside its try block
CoreOutcome(e) ==
    IF e.base_only THEN [exc |-> e, reply |-> NoReply]
    ELSE [exc |-> NoExc, reply |-> ErrorReply(e)]

\* the except clause calls the handler once more
AfterRaiseRetried(tk, e, out) ==
    [tk EXCEPT !.events = tk.events \o <<"raise", "invoke">>, !.raised = e]

\* the call once the handler has raised e: the except clauses of
\* route_command and process_input made out of it, and the call is over
AfterRaise(tk, e, out) ==
    [tk EXCEPT !.pc = "done",
               !.events = Append(tk.events, "raise"),
               !.raised = e,
               !.outcome = IF out.exc # NoExc THEN "raised" ELSE "returned",
               !.exc = out.exc,
               !.reply = out.reply]

\* handle_command raises e into the awaiting call
HandlerRaise(t, e) ==
    LET wrapped == WrapInRoute(task[t].command, e)
        out == IF task[t].entry = "process_input" THEN CoreOutcome(wrapped)
               ELSE [exc |-> wrapped, reply |-> NoReply]
    IN  /\ ~LoopHeld
        /\ task[t].pc = "awaiting" /\ task[t].hangs = ""
        /\ task' = [ClearDone(task) EXCEPT ![t] = AfterRaise(task[t], e, out)]
        /\ registered' = CallsKept(registered)
        /\ UNCHANGED <<gathered, monitor, collector, sized, today, risk_manager, accepted, smtp, delivery, instances, now, lax_dict, command_cache, extracted, secret_key, max_age,
                       issued, verified, handlers, initialized>>

\* the handler of the awaiting call enters a wait that never ends: at an
\* await of its own (how = "suspended"), or inside a synchronous call that
\* keeps the thread (how = "blocking")
HandlerHangs(t, how) ==
    /\ ~LoopHeld
    /\ task[t].pc = "awaiting" /\ task[t].hangs = ""
    /\ task' = [task EXCEPT ![t].hangs = how]
    /\ UNCHANGED <<gathered, monitor, collector, sized, today, risk_manager, accepted, smtp, delivery, instances, now, lax_dict, command_cache, extracted, secret_key,
                   max_age, issued, verified, handlers, initialized, registered>>

\* ------------------------------------------------------------------------
\* CoreControl: the calls
\* ------------------------------------------------------------------------
\* the signature test with the result of the verification inverted
RejectedWhenValid(signed, verify_result) == signed /\ verify_result

\* if command.signature and not self.verifier.verify_signature(...)
Rejected(signed, verify_result) == signed /\ ~verify_result

\* the command is routed without any decision on its signature
DecisionSkipped(signed, verify_result) == <<>>

\* the decision taken on line 63, as an event: the command carries no
\* signature ("unsigned"), or verify_signature was called and returned
Decision(signed, verify_result) ==
    IF ~signed THEN <<"unsigned">>
    ELSE IF verify_result THEN <<"verify_ok">>
    ELSE <<"verify_failed">>

\* process_input(input_text) up to the await of the handler, given what
\* self.processor.process_message gave (pm) and what handler_class() does
\* (init):
\*   task   - the task record afterwards
\*   routed - route_command was called
ProcessInputStart(input, pm, init, regs, key, age, clock) ==
    LET command == pm.command
        signed == HasSignature(command)
        v == VerifySignatureResult(key, age, PyRepr(command.payload),
                                   command.signature.v, command.timestamp, clock)
        checked == <<"parse">> \o Decision(signed, v.result)
        r == RouteStart(command, regs, init)
        failed == CoreOutcome(r.exc)
    IN  IF pm.exc # NoExc
        THEN [task |-> Started("process_input", input, NoCommand, NoMetadata,
                               <<"parse">>, "", pm.exc,
                               CoreOutcome(pm.exc).exc, CoreOutcome(pm.exc).reply),
              routed |-> FALSE]
        ELSE IF command.none
        THEN [task |-> Started("process_input", input, command, pm.metadata,
                               <<"parse">>, "", NoExc, NoExc,
                               NoCommandReply(pm.metadata)),
              routed |-> FALSE]
        ELSE IF Rejected(signed, v.result)
        THEN [task |-> Started("process_input", input, command, pm.metadata,
                               checked, "", NoExc, NoExc,
                               InvalidSignatureReply(pm.metadata)),
              routed |-> FALSE]
        ELSE IF r.exc # NoExc
        THEN [task |-> Started("process_input", input, command, pm.metadata,
                               checked \o r.events, r.handler, init,
                               failed.exc, failed.reply),
              routed |-> TRUE]
        ELSE [task |-> Started("process_input", input, command, pm.metadata,
                               checked \o r.events, r.handler, NoExc, NoExc, NoReply),
              routed |-> TRUE]

\* init is a choice only where a handler class is instantiated
InitApplies(init, pm, regs) ==
    init # NoExc =>
        /\ pm.exc = NoExc
        /\ ~pm.command.none
        /\ pm.command.target_system \in DOMAIN regs

\* process_input(input_text), given what process_message returned (pm)
ProcessInputAfter(t, input, init, pm, given) ==
    LET r == ProcessInputStart(input, given, init, handlers, secret_key, max_age, now)
    IN  /\ ~LoopHeld
        /\ task[t].pc # "awaiting"
        /\ InitApplies(init, given, handlers)
        /\ Cardinality(DOMAIN pm.cache) <= MaxCache
        /\ command_cache' = pm.cache
        /\ initialized' = (initialized \/ r.routed)
        /\ Dispatched(t, r.task)
        /\ registered' = CallsKept(registered)

\* command, metadata = self.processor.process_message(input_text)
Returned(pm) == [exc |-> NoExc, command |-> pm.command, metadata |-> pm.metadata]

\* process_input(input_text) with the MessageProcessor of the constructor
ProcessInput(t, input, init) ==
    LET pm == ProcessMessageResult(input, command_cache, now, lax_dict)
    IN  /\ ProcessInputAfter(t, input, init, pm, Returned(pm))
        /\ UNCHANGED <<gathered, monitor, collector, sized, today, risk_manager, accepted, smtp, delivery, now, lax_dict, extracted, secret_key, max_age, issued,
                       verified, handlers>>

\* process_input(input_text) with another processor in self.processor
ProcessInputWith(t, pm, init) ==
    LET r == ProcessInputStart(<<>>, pm, init, handlers, secret_key, max_age, now)
    IN  /\ ~LoopHeld
        /\ task[t].pc # "awaiting"
        /\ InitApplies(init, pm, handlers)
        /\ initialized' = (initialized \/ r.routed)
        /\ Dispatched(t, r.task)
        /\ registered' = CallsKept(registered)
        /\ UNCHANGED <<gathered, monitor, collector, sized, today, risk_manager, accepted, smtp, delivery, now, lax_dict, command_cache, extracted, secret_key, max_age,
                       issued, verified, handlers>>

\* the task of a caller that makes one call after the other
Callers == {1}

\* a CoreControl with its router, verifier and processor, started at any
\* clock reading, and one caller
InitCore ==
    /\ now \in ClockReadings
    /\ lax_dict \in BOOLEAN
    /\ command_cache = <<>>
    /\ extracted = NoExtracted
    /\ secret_key = CoreKey
    /\ max_age = DefaultMaxAge
    /\ issued = NoIssued
    /\ verified = NoVerified
    /\ handlers = <<>>
    /\ initialized = FALSE
    /\ registered = NoRegistered
    /\ task = [t \in Tasks |-> IdleTask]
    /\ instances = 0
    /\ smtp = "none"
    /\ delivery = NoDelivery
    /\ accepted = NoAccepted
    /\ risk_manager = NoRiskManager
    /\ today = 0
    /\ sized = NoSized
    /\ collector = NewDataCollector
    /\ monitor = NoMonitor
    /\ gathered = NoGathered

NextCore ==
    \/ \E system \in Systems, handler \in HandlerClasses : RegisterHandler(system, handler)
    \/ \E t \in Callers, command \in RouteCommands, init \in InitOutcomes :
           RouteCommand(t, command, init)
    \/ \E t \in Callers, input \in CoreMessages, init \in InitOutcomes :
           ProcessInput(t, input, init)
    \/ \E t \in Callers, pm \in StubOutcomes, init \in InitOutcomes :
           ProcessInputWith(t, pm, init)
    \/ \E t \in Callers, response \in Responses : HandlerReturn(t, response)
    \/ \E t \in Callers, e \in HandlerErrors : HandlerRaise(t, e)

SpecCore == InitCore /\ [][NextCore]_vars

\* ------------------------------------------------------------------------
\* Dispatch tasks scheduled concurrently on one router
\* ------------------------------------------------------------------------
\* the system the handlers are registered for
DispatchSystems == {<<"x">>}

\* route_command for that system and for one that has no handler
DispatchCommands ==
    {Command(<<"p">>, system, SomePayload, NoSignature, NoTimestamp) :
        system \in DispatchSystems \cup {<<"z">>}}

\* what handle_command returns: the mappings of the shipped handlers, and
\* a mapping without a status
DispatchResponses == Responses \cup {[status |-> "", message |-> "queued"]}

\* a CommandRouter and the dispatch tasks of its caller, none started
InitDispatch ==
    /\ now = 0
    /\ lax_dict = FALSE
    /\ command_cache = <<>>
    /\ extracted = NoExtracted
    /\ secret_key = CoreKey
    /\ max_age = DefaultMaxAge
    /\ issued = NoIssued
    /\ verified = NoVerified
    /\ handlers = <<>>
    /\ initialized = FALSE
    /\ registered = NoRegistered
    /\ task = [t \in Tasks |-> IdleTask]
    /\ instances = 0
    /\ smtp = "none"
    /\ delivery = NoDelivery
    /\ accepted = NoAccepted
    /\ risk_manager = NoRiskManager
    /\ today = 0
    /\ sized = NoSized
    /\ collector = NewDataCollector
    /\ monitor = NoMonitor
    /\ gathered = NoGathered

\* the handler of task t completes: it returns or raises
Completes(t) ==
    \/ \E response \in DispatchResponses : HandlerReturn(t, response)
    \/ \E e \in HandlerErrors : HandlerRaise(t, e)

NextDispatch ==
    \/ \E system \in DispatchSystems, handler \in HandlerClasses :
           RegisterHandler(system, handler)
    \/ \E t \in Tasks, command \in DispatchCommands, init \in InitOutcomes :
           RouteCommand(t, command, init)
    \/ \E t \in Tasks, response \in DispatchResponses : HandlerReturn(t, response)
    \/ \E t \in Tasks, e \in HandlerErrors : HandlerRaise(t, e)
    \/ \E t \in Tasks, how \in {"suspended", "blocking"} : HandlerHangs(t, how)

SpecDispatch == InitDispatch /\ [][NextDispatch]_vars

\* the event loop resumes every call whose handler has completed
SpecDispatchFair == SpecDispatch /\ \A t \in Tasks : WF_vars(Completes(t))

\* ------------------------------------------------------------------------
\* Command_Network handlers: handle_command of the Discord, Telegram and
\* email handlers, on a handler object that is kept between calls
\* ------------------------------------------------------------------------
\* command.payload.get(key, default)
PayloadGet(payload, key, default) ==
    IF key \in DictKeys(payload) THEN DictGet(payload, key) ELSE default

\* bool(v) of a payload value
ValueTruthy(v) ==
    IF v.t = "str" THEN v.s # <<>>
    ELSE IF v.t = "num" THEN v.n # 0
    ELSE IF v.t \in {"arr", "obj"} THEN v.items # <<>>
    ELSE v.t = "lit" /\ v.s = <<"t", "r", "u", "e">>

\* int(v) does not raise
IntAccepts(v) ==
    \/ v.t = "num"
    \/ v.t = "str" /\ v.s # <<>> /\ \A i \in 1..Len(v.s) : v.s[i] \in Digits

\* int(v)
IntOf(v) == IF v.t = "num" THEN v.n ELSE DecimalValue(v.s)

\* command.payload.get("content", "No content provided")
ContentOf(payload) ==
    PayloadGet(payload, <<"content">>, JStr(<<"No content provided">>))

\* the content goes out a second time
DeliveredTwice(platform, to, content) ==
    <<[platform |-> platform, to |-> to, content |-> content],
      [platform |-> platform, to |-> to, content |-> content]>>

\* what one send call puts on the platform: channel.send(content),
\* bot.send_message(chat_id=..., text=...), smtp.send_message(msg)
Delivered(platform, to, content) ==
    <<[platform |-> platform, to |-> to, content |-> content]>>

\* what handle_command gives:
\*   response  - the mapping returned
\*   delivered - what went out on the platform during the call
\*   opened    - the SMTP connections opened during the call
\*   smtp      - the handler's smtp attribute afterwards
\*   raised    - the exception that left handle_command (NoExc: it returned)
Handled(response, delivered, opened, conn) ==
    [response |-> response, delivered |-> delivered, opened |-> opened, smtp |-> conn,
     raised |-> NoExc]

\* the task that runs handle_command is cancelled while it waits at an
\* await: asyncio.CancelledError, which 'except Exception' does not catch,
\* leaves handle_command
Cancelled(opened, conn) ==
    [response |-> NoResponse, delivered |-> <<>>, opened |-> opened, smtp |-> conn,
     raised |-> BaseExc("CancelledError", <<>>)]

\* the send inside a try block without an except clause
SendOutcomeReraise(send, delivered, sent, error, opened, conn) ==
    IF send = "ok" THEN Handled(sent, delivered, opened, conn)
    ELSE [response |-> NoResponse, delivered |-> <<>>, opened |-> opened, smtp |-> conn,
          raised |-> Exc("Exception", <<>>)]

\* await <send>; return {"status": "success", ...}, inside try / except
\* Exception: the send returns (send = "ok"), raises before anything went
\* out ("raises"), raises after the platform took the message
\* ("lost_reply"), or the task is cancelled while it waits ("cancelled")
SendOutcome(send, delivered, sent, error, opened, conn) ==
    IF send = "ok" THEN Handled(sent, delivered, opened, conn)
    ELSE IF send = "lost_reply" THEN Handled(error, delivered, opened, conn)
    ELSE IF send = "cancelled" THEN Cancelled(opened, conn)
    ELSE Handled(error, <<>>, opened, conn)

MessageSent == [status |-> "success", message |-> "Message sent"]
DiscordInvalid ==
    [status |-> "error", message |-> "Invalid channel ID or missing content"]
DiscordError == [status |-> "error", message |-> "Error handling Discord command"]

\* DiscordCommandHandler.handle_command(command):
\*   fetch - what bot.fetch_channel does: "channel" | "none" | "raises" |
\*           "cancelled"
\*   send  - what channel.send does
DiscordHandleCommand(payload, fetch, send) ==
    LET channel_id == PayloadGet(payload, <<"channel_id">>, JNone)
    IN  IF ~ValueTruthy(channel_id) THEN Handled(DiscordInvalid, <<>>, 0, "none")
        ELSE IF ~IntAccepts(channel_id) \/ fetch = "raises"
        THEN Handled(DiscordError, <<>>, 0, "none")
        ELSE IF fetch = "cancelled" THEN Cancelled(0, "none")
        ELSE IF fetch = "none" THEN Handled(DiscordInvalid, <<>>, 0, "none")
        ELSE SendOutcome(send,
                         Delivered("discord", JNum(IntOf(channel_id)), ContentOf(payload)),
                         MessageSent, DiscordError, 0, "none")

TelegramInvalid ==
    [status |-> "error", message |-> "Invalid chat ID or missing content"]
TelegramError == [status |-> "error", message |-> "Error handling Telegram command"]

\* TelegramHandler.handle_command(command): send is what bot.send_message does
TelegramHandleCommand(payload, send) ==
    LET chat_id == PayloadGet(payload, <<"chat_id">>, JNone)
    IN  IF ~ValueTruthy(chat_id) THEN Handled(TelegramInvalid, <<>>, 0, "none")
        ELSE SendOutcome(send, Delivered("telegram", chat_id, ContentOf(payload)),
                         MessageSent, TelegramError, 0, "none")

EmailSent == [status |-> "success", message |-> "Email sent"]
EmailInvalid ==
    [status |-> "error", message |-> "Invalid email address or missing content"]
EmailError == [status |-> "error", message |-> "Error handling email command"]

\* the smtp attribute of an EmailHandler:
\*   "none"            - None
\*   "live"            - a connection that has logged in
\*   "unauthenticated" - the object of line 90, whose starttls or login raised
\*   "dead"            - a connection that was closed, by stop() or by the server
\* the server at the time of a call:
\*   "accepting"     - it accepts connections, logins and mail
\*   "down"          - smtplib.SMTP(...) raises
\*   "rejects_login" - starttls or login raises
\*   "rejects_mail"  - send_message raises
\* _connect_smtp(): the attribute afterwards, whether the call raised, and
\* the connections opened
ConnectSmtp(server, conn) ==
    IF server = "down" THEN [smtp |-> conn, raised |-> TRUE, opened |-> 0]
    ELSE IF server = "rejects_login"
    THEN [smtp |-> "unauthenticated", raised |-> TRUE, opened |-> 1]
    ELSE [smtp |-> "live", raised |-> FALSE, opened |-> 1]

\* _connect_smtp() whatever the attribute holds
ConnectAlways(server, conn) == ConnectSmtp(server, conn)

\* if not self.smtp: await self._connect_smtp()
ConnectIfNone(server, conn) ==
    IF conn = "none" THEN ConnectSmtp(server, conn)
    ELSE [smtp |-> conn, raised |-> FALSE, opened |-> 0]

\* self.smtp.send_message(msg) returns: the connection has logged in and
\* is open, and the server takes the mail
MailAccepted(server, conn) ==
    conn = "live" /\ server \in {"accepting", "rejects_login"}

\* _send_email, once the connection step c is over
SendEmail(payload, server, c) ==
    IF c.raised THEN Handled(EmailError, <<>>, c.opened, c.smtp)
    ELSE SendOutcome(IF MailAccepted(server, c.smtp) THEN "ok" ELSE "raises",
                     Delivered("email", PayloadGet(payload, <<"to">>, JNone),
                               ContentOf(payload)),
                     EmailSent, EmailError, c.opened, c.smtp)

\* EmailHandler.handle_command(command) on a handler whose smtp attribute
\* is conn
EmailHandleCommand(payload, conn, server) ==
    IF ~ValueTruthy(PayloadGet(payload, <<"to">>, JNone))
    THEN Handled(EmailInvalid, <<>>, 0, conn)
    ELSE SendEmail(payload, server, ConnectIfNone(server, conn))

\* the payloads handed to the handlers: a destination under the key of
\* the platform and a content, either of them possibly missing
Destinations ==
    {JStr(<<"1", "2">>), JNum(12), JStr(<<"a", "b">>), JStr(<<>>), JNum(0)}
SomeContent == JStr(<<"h", "i">>)
HandlerPayloads(key) ==
    {JObj(<<JMember(<<key>>, to), JMember(<<"content">>, SomeContent)>>) :
        to \in Destinations}
      \cup {JObj(<<JMember(<<"content">>, SomeContent)>>),
            JObj(<<JMember(<<key>>, JStr(<<"1", "2">>))>>)}

FetchOutcomes == {"channel", "none", "raises", "cancelled"}
SendOutcomes == {"ok", "raises", "lost_reply", "cancelled"}
Servers == {"accepting", "down", "rejects_login", "rejects_mail"}

\* the record of a handle_command call
HandleCalled(handler, payload, env, r) ==
    [handler |-> handler, payload |-> payload, env |-> env,
     response |-> r.response, delivered |-> r.delivered, opened |-> r.opened,
     smtp_before |-> smtp, raised |-> r.raised]

DiscordHandle(payload, fetch, send) ==
    /\ delivery' = HandleCalled("discord", payload, <<fetch, send>>,
                                DiscordHandleCommand(payload, fetch, send))
    /\ UNCHANGED <<gathered, monitor, collector, sized, today, risk_manager, accepted, smtp, now, lax_dict, command_cache, extracted, secret_key, max_age,
                   issued, verified, handlers, initialized, registered, task, instances>>

TelegramHandle(payload, send) ==
    /\ delivery' = HandleCalled("telegram", payload, <<send>>,
                                TelegramHandleCommand(payload, send))
    /\ UNCHANGED <<gathered, monitor, collector, sized, today, risk_manager, accepted, smtp, now, lax_dict, command_cache, extracted, secret_key, max_age,
                   issued, verified, handlers, initialized, registered, task, instances>>

EmailHandle(payload, server) ==
    /\ delivery' = HandleCalled("email", payload, <<server>>,
                                EmailHandleCommand(payload, smtp, server))
    /\ smtp' = EmailHandleCommand(payload, smtp, server).smtp
    /\ UNCHANGED <<gathered, monitor, collector, sized, today, risk_manager, accepted, now, lax_dict, command_cache, extracted, secret_key, max_age,
                   issued, verified, handlers, initialized, registered, task, instances>>

\* await handler._connect_smtp(), as start() and the tests call it
EmailConnect(server) ==
    /\ smtp' = ConnectAlways(server, smtp).smtp
    /\ delivery' = [NoDelivery EXCEPT !.handler = "_connect_smtp", !.env = <<server>>,
                                      !.opened = ConnectAlways(server, smtp).opened,
                                      !.smtp_before = smtp]
    /\ UNCHANGED <<gathered, monitor, collector, sized, today, risk_manager, accepted, now, lax_dict, command_cache, extracted, secret_key, max_age,
                   issued, verified, handlers, initialized, registered, task, instances>>

\* stop(): if self.smtp: self.smtp.quit(); the attribute keeps the object
EmailStop ==
    /\ smtp' = IF smtp = "none" THEN "none" ELSE "dead"
    /\ delivery' = [NoDelivery EXCEPT !.handler = "stop", !.smtp_before = smtp]
    /\ UNCHANGED <<gathered, monitor, collector, sized, today, risk_manager, accepted, now, lax_dict, command_cache, extracted, secret_key, max_age,
                   issued, verified, handlers, initialized, registered, task, instances>>

\* the server closes a connection that has been idle
ServerCloses ==
    /\ smtp = "live"
    /\ smtp' = "dead"
    /\ delivery' = [NoDelivery EXCEPT !.handler = "server", !.smtp_before = smtp]
    /\ UNCHANGED <<gathered, monitor, collector, sized, today, risk_manager, accepted, now, lax_dict, command_cache, extracted, secret_key, max_age,
                   issued, verified, handlers, initialized, registered, task, instances>>

\* one handler object of each kind, just constructed
InitHandlers ==
    /\ now = 0
    /\ lax_dict = FALSE
    /\ command_cache = <<>>
    /\ extracted = NoExtracted
    /\ secret_key = CoreKey
    /\ max_age = DefaultMaxAge
    /\ issued = NoIssued
    /\ verified = NoVerified
    /\ handlers = <<>>
    /\ initialized = FALSE
    /\ registered = NoRegistered
    /\ task = [t \in Tasks |-> IdleTask]
    /\ instances = 0
    /\ smtp = "none"
    /\ delivery = NoDelivery
    /\ accepted = NoAccepted
    /\ risk_manager = NoRiskManager
    /\ today = 0
    /\ sized = NoSized
    /\ collector = NewDataCollector
    /\ monitor = NoMonitor
    /\ gathered = NoGathered

NextHandlers ==
    \/ \E payload \in HandlerPayloads("channel_id"), fetch \in FetchOutcomes,
          send \in SendOutcomes : DiscordHandle(payload, fetch, send)
    \/ \E payload \in HandlerPayloads("chat_id"), send \in SendOutcomes :
           TelegramHandle(payload, send)
    \/ \E payload \in HandlerPayloads("to"), server \in Servers :
           EmailHandle(payload, server)
    \/ \E server \in Servers : EmailConnect(server)
    \/ EmailStop
    \/ ServerCloses

SpecHandlers == InitHandlers /\ [][NextHandlers]_vars

\* ------------------------------------------------------------------------
\* AthenaMist: RiskManager.  Money is in units of the account currency;
\* the two risk rates are in percent and a confidence is in percent of 1.0
\* (the products below are exact in floating point for the values used)
\* ------------------------------------------------------------------------
AccountBalance == 10000
MaxRiskPerTrade == 2
MaxDailyRisk == 6

\* RiskManager(max_risk_per_trade, max_daily_risk, account_balance) made on
\* the date current_date
RiskManager(max_risk_per_trade, max_daily_risk, account_balance, current_date) ==
    [max_risk_per_trade |-> max_risk_per_trade, max_daily_risk |-> max_daily_risk,
     account_balance |-> account_balance, daily_risk_used |-> 0,
     last_reset |-> current_date]

\* self.account_balance * self.max_risk_per_trade * confidence
RiskAmount(rm, confidence) ==
    (rm.account_balance * rm.max_risk_per_trade * confidence) \div 10000

\* self.account_balance * self.max_daily_risk
DailyLimit(rm) == (rm.account_balance * rm.max_daily_risk) \div 100

\* _check_daily_reset()
CheckDailyReset(rm, current_date) ==
    IF current_date > rm.last_reset
    THEN [rm EXCEPT !.daily_risk_used = 0, !.last_reset = current_date]
    ELSE rm

\* the risk is booked before the stop distance is looked at
CalculatePositionSizeBooksFirst(rm, current_date, entry_price, stop_loss, confidence) ==
    LET checked == CheckDailyReset(rm, current_date)
        risk_amount == RiskAmount(checked, confidence)
        pip_risk == IF entry_price >= stop_loss THEN entry_price - stop_loss
                    ELSE stop_loss - entry_price
        booked == [checked EXCEPT !.daily_risk_used = @ + risk_amount]
    IN  IF checked.daily_risk_used + risk_amount > DailyLimit(checked)
        THEN [rm |-> checked, result |-> 0]
        ELSE IF pip_risk = 0 THEN [rm |-> booked, result |-> 0]
        ELSE [rm |-> booked, result |-> risk_amount \div pip_risk]

\* calculate_position_size(entry_price, stop_loss, confidence) on the date
\* current_date: the object afterwards and the position size returned
CalculatePositionSizeResult(rm, current_date, entry_price, stop_loss, confidence) ==
    LET checked == CheckDailyReset(rm, current_date)
        risk_amount == RiskAmount(checked, confidence)
        pip_risk == IF entry_price >= stop_loss THEN entry_price - stop_loss
                    ELSE stop_loss - entry_price
    IN  IF checked.daily_risk_used + risk_amount > DailyLimit(checked)
        THEN [rm |-> checked, result |-> 0]
        ELSE IF pip_risk = 0 THEN [rm |-> checked, result |-> 0]
        ELSE [rm |-> [checked EXCEPT !.daily_risk_used = @ + risk_amount],
              result |-> risk_amount \div pip_risk]

CalculatePositionSize(entry_price, stop_loss, confidence) ==
    LET r == CalculatePositionSizeResult(risk_manager, today, entry_price, stop_loss,
                                         confidence)
    IN  /\ risk_manager' = r.rm
        /\ sized' = [some |-> TRUE, entry_price |-> entry_price, stop_loss |-> stop_loss,
                     confidence |-> confidence,
                     risk_amount |-> RiskAmount(risk_manager, confidence),
                     result |-> r.result,
                     used_before |-> risk_manager.daily_risk_used, day |-> today,
                     reset |-> today > risk_manager.last_reset]
        /\ UNCHANGED <<gathered, monitor, collector, today, accepted, smtp, delivery, now, lax_dict, command_cache,
                       extracted, secret_key, max_age, issued, verified, handlers,
                       initialized, registered, task, instances>>

\* midnight passes
DayPasses(date) ==
    /\ date > today /\ date <= MaxDay
    /\ today' = date
    /\ UNCHANGED <<gathered, monitor, collector, risk_manager, sized, accepted, smtp, delivery, now, lax_dict,
                   command_cache, extracted, secret_key, max_age, issued, verified,
                   handlers, initialized, registered, task, instances>>

\* prices in units of the quote currency; confidences in percent
Prices == {100, 101, 102}
Confidences == {0, 25, 50, 100}
RiskRates == {MaxRiskPerTrade, 2 * MaxRiskPerTrade}

\* a RiskManager just constructed, with the default balance and daily rate
InitRisk ==
    /\ now = 0
    /\ lax_dict = FALSE
    /\ command_cache = <<>>
    /\ extracted = NoExtracted
    /\ secret_key = CoreKey
    /\ max_age = DefaultMaxAge
    /\ issued = NoIssued
    /\ verified = NoVerified
    /\ handlers = <<>>
    /\ initialized = FALSE
    /\ registered = NoRegistered
    /\ task = [t \in Tasks |-> IdleTask]
    /\ instances = 0
    /\ smtp = "none"
    /\ delivery = NoDelivery
    /\ accepted = NoAccepted
    /\ today = 0
    /\ \E rate \in RiskRates :
          risk_manager = RiskManager(rate, MaxDailyRisk, AccountBalance, today)
    /\ sized = NoSized
    /\ collector = NewDataCollector
    /\ monitor = NoMonitor
    /\ gathered = NoGathered

NextRisk ==
    \/ \E entry_price \in Prices, stop_loss \in Prices, confidence \in Confidences :
           CalculatePositionSize(entry_price, stop_loss, confidence)
    \/ \E date \in 1..MaxDay : DayPasses(date)

SpecRisk == InitRisk /\ [][NextRisk]_vars

\* ------------------------------------------------------------------------
\* SovereignCore: DataCollector and the monitoring loop
\* ------------------------------------------------------------------------
\* what the remote end answers to one collection: the request raises, or
\* it brings entries (of a feed) or items (of an API)
\* with up to two of them, so that an id can come twice in one answer
UpToTwo(S) == UNION {[1..k -> S] : k \in 0..2}
Answers(source_type) ==
    IF source_type = "rss"
    THEN {[raises |-> FALSE, entries |-> e] : e \in UpToTwo(EntryIds)}
    ELSE {[raises |-> TRUE, entries |-> <<>>]}
         \cup {[raises |-> FALSE, entries |-> e] :
                   e \in UpToTwo(EntryIds \cup {NoMapping})}

\* the outcome of process_items and store_items for the items of one
\* collection: both catch the error of an item and go on
Processings == {"ok", "error"}

DataItem(item_id, source_id) == [item_id |-> item_id, source_id |-> source_id]

\* the loop with the id recorded only by the caller, after processing
RECURSIVE CollectEntriesUnmarked(_, _, _, _)
CollectEntriesUnmarked(source, entries, processed_items, items) ==
    IF entries = <<>>
    THEN [items |-> items, processed_items |-> processed_items, raised |-> FALSE]
    ELSE IF source.source_type = "api" /\ Head(entries) = NoMapping
    THEN [items |-> <<>>, processed_items |-> processed_items, raised |-> TRUE]
    ELSE LET item_id == Head(entries)
         IN  IF item_id \notin processed_items
             THEN CollectEntriesUnmarked(source, Tail(entries), processed_items,
                                         Append(items, DataItem(item_id, source.source_id)))
             ELSE CollectEntriesUnmarked(source, Tail(entries), processed_items, items)

\* the loop over the entries: an id not in processed_items is added to it
\* and its item appended; an item of an API answer that is no mapping
\* raises, and the except clause returns [] with the ids added so far kept
RECURSIVE CollectEntries(_, _, _, _)
CollectEntries(source, entries, processed_items, items) ==
    IF entries = <<>>
    THEN [items |-> items, processed_items |-> processed_items, raised |-> FALSE]
    ELSE IF source.source_type = "api" /\ Head(entries) = NoMapping
    THEN [items |-> <<>>, processed_items |-> processed_items, raised |-> TRUE]
    ELSE LET item_id == Head(entries)
         IN  IF item_id \notin processed_items
             THEN CollectEntries(source, Tail(entries), processed_items \cup {item_id},
                                 Append(items, DataItem(item_id, source.source_id)))
             ELSE CollectEntries(source, Tail(entries), processed_items, items)

\* collect_from_source(source) when the remote end answers `answer`: the
\* list returned and processed_items afterwards
CollectFromSourceResult(source, answer, processed_items) ==
    IF source.source_type \notin {"rss", "api"}
    THEN [items |-> <<>>, processed_items |-> processed_items]
    ELSE IF answer.raises
    THEN [items |-> <<>>, processed_items |-> processed_items]
    ELSE LET r == CollectEntries(source, answer.entries, processed_items, <<>>)
         IN  [items |-> r.items, processed_items |-> r.processed_items]

ItemIdsOf(items) == {items[k].item_id : k \in DOMAIN items}
RegisteredSources == {collector.sources[k] : k \in DOMAIN collector.sources}

\* the record of the collections after one more
Gather(g, source, answer, r, monitoring, processing) ==
    [returned |-> [i \in ItemIds |->
                      IF i \in ItemIdsOf(r.items) /\ g.returned[i] < 2
                      THEN g.returned[i] + 1 ELSE g.returned[i]],
     failed |-> IF processing = "error" THEN g.failed \cup ItemIdsOf(r.items)
                ELSE g.failed,
     last_call |-> [some |-> TRUE, source_id |-> source.source_id, items |-> r.items,
                    refused |-> {answer.entries[k] : k \in DOMAIN answer.entries}
                                   \ (ItemIdsOf(r.items) \cup {NoMapping})],
     passes |-> IF monitoring
                THEN [g.passes EXCEPT ![source.source_id] =
                         [some |-> TRUE, last |-> now,
                          early |-> @.some /\ now - @.last < source.update_interval]]
                ELSE g.passes]

\* control is with another task only while the loop awaits
LoopAwaits == monitor.pos = 0 \/ monitor.awaited

\* add_source(source): a new key makes the dictionary grow, and the for
\* loop of a pass under way raises RuntimeError at its next step
AddSource(source_id) ==
    /\ LoopAwaits
    /\ collector' =
          [collector EXCEPT
              !.sources = IF source_id \in RegisteredSources THEN @
                          ELSE Append(@, source_id),
              !.last_update = [s \in DOMAIN @ \cup {source_id} |->
                                  IF s = source_id THEN DatetimeMin ELSE @[s]]]
    /\ monitor' = [monitor EXCEPT
                      !.changed = @ \/ (monitor.pos > 0
                                        /\ source_id \notin RegisteredSources)]
    /\ UNCHANGED <<gathered, sized, today, risk_manager, accepted, smtp, delivery, now,
                   lax_dict, command_cache, extracted, secret_key, max_age, issued,
                   verified, handlers, initialized, registered, task, instances>>

StartMonitoring ==
    /\ ~monitor.running /\ monitor.pos = 0
    /\ monitor' = [monitor EXCEPT !.running = TRUE]
    /\ UNCHANGED <<gathered, collector, sized, today, risk_manager, accepted, smtp,
                   delivery, now, lax_dict, command_cache, extracted, secret_key,
                   max_age, issued, verified, handlers, initialized, registered, task,
                   instances>>

StopMonitoring ==
    /\ LoopAwaits
    /\ monitor.running
    /\ monitor' = [monitor EXCEPT !.running = FALSE]
    /\ UNCHANGED <<gathered, collector, sized, today, risk_manager, accepted, smtp,
                   delivery, now, lax_dict, command_cache, extracted, secret_key,
                   max_age, issued, verified, handlers, initialized, registered, task,
                   instances>>

\* a pass is under way, or the while test lets one begin
PassGoesOn == monitor.pos > 0 \/ monitor.running

\* the body of the for loop for the next source of the dictionary, when
\* the remote end answers as a source of its type can
MonitorSource(answer, processing) ==
    /\ PassGoesOn /\ ~monitor.changed
    /\ monitor.pos < Len(collector.sources)
    /\ answer \in Answers(DataSource(collector.sources[monitor.pos + 1]).source_type)
    /\ LET source == DataSource(collector.sources[monitor.pos + 1])
           last_update == collector.last_update[source.source_id]
       IN  IF now - last_update >= source.update_interval
           THEN LET r == CollectFromSourceResult(source, answer,
                                                 collector.processed_items)
                IN  /\ collector' =
                          [collector EXCEPT
                              !.processed_items = r.processed_items,
                              !.last_update[source.source_id] =
                                  IF r.items # <<>> THEN now ELSE @]
                    /\ gathered' = Gather(gathered, source, answer, r, TRUE, processing)
                    /\ monitor' = [monitor EXCEPT !.pos = @ + 1, !.awaited = TRUE]
           ELSE /\ monitor' = [monitor EXCEPT !.pos = @ + 1, !.awaited = FALSE]
                /\ UNCHANGED <<collector, gathered>>
    /\ UNCHANGED <<sized, today, risk_manager, accepted, smtp, delivery, now, lax_dict,
                   command_cache, extracted, secret_key, max_age, issued, verified,
                   handlers, initialized, registered, task, instances>>

\* the for loop is over: asyncio.sleep(1), then the while test
MonitorSleep ==
    /\ PassGoesOn /\ ~monitor.changed
    /\ monitor.pos = Len(collector.sources)
    /\ now + 1 <= MaxTime
    /\ now' = now + 1
    /\ monitor' = [monitor EXCEPT !.pos = 0, !.awaited = FALSE]
    /\ UNCHANGED <<gathered, collector, sized, today, risk_manager, accepted, smtp,
                   delivery, lax_dict, command_cache, extracted, secret_key, max_age,
                   issued, verified, handlers, initialized, registered, task, instances>>

\* the for loop raised: the except clause logs and sleeps 5 seconds
MonitorBackoff ==
    /\ monitor.changed
    /\ now + 5 <= MaxTime
    /\ now' = now + 5
    /\ monitor' = [monitor EXCEPT !.pos = 0, !.awaited = FALSE, !.changed = FALSE]
    /\ UNCHANGED <<gathered, collector, sized, today, risk_manager, accepted, smtp,
                   delivery, lax_dict, command_cache, extracted, secret_key, max_age,
                   issued, verified, handlers, initialized, registered, task, instances>>

\* a SovereignCore just constructed
InitMonitor ==
    /\ now = 0
    /\ lax_dict = FALSE
    /\ command_cache = <<>>
    /\ extracted = NoExtracted
    /\ secret_key = CoreKey
    /\ max_age = DefaultMaxAge
    /\ issued = NoIssued
    /\ verified = NoVerified
    /\ handlers = <<>>
    /\ initialized = FALSE
    /\ registered = NoRegistered
    /\ task = [t \in Tasks |-> IdleTask]
    /\ instances = 0
    /\ smtp = "none"
    /\ delivery = NoDelivery
    /\ accepted = NoAccepted
    /\ risk_manager = NoRiskManager
    /\ today = 0
    /\ sized = NoSized
    /\ collector = NewDataCollector
    /\ monitor = NoMonitor
    /\ gathered = NoGathered

NextMonitor ==
    \/ \E source_id \in SourceIds : AddSource(source_id)
    \/ StartMonitoring
    \/ StopMonitoring
    \/ \E answer \in Answers("rss") \cup Answers("api"), processing \in Processings :
          MonitorSource(answer, processing)
    \/ MonitorSleep
    \/ MonitorBackoff

SpecMonitor == InitMonitor /\ [][NextMonitor]_vars

\* ------------------------------------------------------------------------
\* Properties
\* ------------------------------------------------------------------------
\* the call of verify_signature just made presents the issued signature
\* with the message and the timestamp it was issued for, under the same key
VerifiedAsIssued ==
    /\ verified.some /\ issued.some
    /\ verified.message = issued.message
    /\ verified.timestamp = issued.timestamp
    /\ verified.key = issued.key

\* C1: for every message that contains text of the wire format
\* #<command_type>@<target_system>{<json-object>}, extract_command returns
\* a Command whose command_type and target_system are the two tokens and
\* whose payload is the parsed JSON object.
C1_WireCommandExtracted ==
    \A ct \in WireTypes, ts \in WireTargets, o \in WireObjects :
        (extracted.op = "extract_command" /\ ContainsWire(extracted.message, ct, ts, o))
            => /\ ~extracted.command.none
               /\ extracted.command.command_type = ct
               /\ extracted.command.target_system = ts
               /\ DictEq(extracted.command.payload, o)

\* C2 as stated: for every message s and every timestamp t,
\* verify_signature(s, generate_signature(s, t), t) returns true when the
\* same secret key is in force for both calls.
C2_SignThenVerifyAlways ==
    (VerifiedAsIssued /\ verified.timestamp.k # "none"
        /\ verified.signature = issued.signature)
        => verified.result

\* C2 amended: verify_signature(s, generate_signature(s, t), t) returns
\* true under the same key whenever t is a timestamp fromtimestamp accepts
\* and the signature is not older than max_age at the time of the call.
C2_SignThenVerifyWhileFresh ==
    (VerifiedAsIssued /\ verified.timestamp.k = "num"
        /\ verified.signature = issued.signature
        /\ verified.at - verified.timestamp.v <= verified.age)
        => verified.result

\* a signature verified at the very end of its validity, and later than issued
C2_Witness ==
    /\ VerifiedAsIssued /\ verified.timestamp.k = "num"
    /\ verified.timestamp.v # 0
    /\ verified.signature = issued.signature
    /\ verified.at - verified.timestamp.v = verified.age
    /\ verified.result

\* C3: for every message s and timestamp t, verify_signature(s, sig, t)
\* returns false for every signature string sig that differs from
\* generate_signature(s, t).
C3_AlteredSignatureRejected ==
    (VerifiedAsIssued /\ verified.timestamp.k # "none"
        /\ verified.signature # issued.signature)
        => ~verified.result

\* a one-character mutation of a fresh signature, rejected by the comparison
C3_Witness ==
    /\ VerifiedAsIssued /\ verified.timestamp.k = "num"
    /\ verified.signature # issued.signature
    /\ Len(verified.signature) = Len(issued.signature)
    /\ Cardinality({i \in 1..Len(issued.signature) :
                        verified.signature[i] # issued.signature[i]}) = 1
    /\ ~verified.expired /\ ~verified.caught
    /\ ~verified.result

\* C4: once the current time has passed t + max_age,
\* verify_signature(s, generate_signature(s, t), t) returns false, for
\* every timestamp t that can be supplied.
C4_ExpiredSignatureRejected ==
    (VerifiedAsIssued /\ verified.timestamp.k = "num"
        /\ verified.signature = issued.signature
        /\ verified.at > verified.timestamp.v + verified.age)
        => ~verified.result

\* C5: verify_signature(m, sig, None) returns false for every message m
\* and every non-empty signature sig, at every current time.
C5_MissingTimestampRejected ==
    (verified.some /\ verified.signature # <<>> /\ verified.timestamp.k = "none")
        => ~verified.result

\* C6: route_command on a command whose target system has no entry in the
\* registry raises the ValueError that names the target system, and no
\* handler is instantiated or invoked.
C6_UnregisteredTargetRaises ==
    \A t \in Tasks :
        (task[t].entry = "route_command" /\ task[t].pc = "done"
            /\ task[t].command.target_system \notin DOMAIN handlers)
            => /\ task[t].outcome = "raised"
               /\ task[t].exc.type = "ValueError"
               /\ task[t].exc.text =
                      <<[lit |-> "No handler found for system: ", chars |-> <<>>],
                        [lit |-> "", chars |-> task[t].command.target_system]>>
               /\ task[t].events = <<"lookup">>
               /\ task[t].handler = ""

\* a route_command call for a target that is not registered, while another is
C6_Witness ==
    \E t \in Tasks :
        /\ task[t].entry = "route_command" /\ task[t].pc = "done"
        /\ task[t].command.target_system \notin DOMAIN handlers
        /\ DOMAIN handlers # {}
        /\ task[t].exc.type = "ValueError"

\* the text of the RuntimeError route_command raises for the handler's e
WrappedText(tk) ==
    <<[lit |-> "Error handling command for ", chars |-> <<>>],
      [lit |-> "", chars |-> tk.command.target_system],
      [lit |-> ": ", chars |-> <<>>]>> \o tk.raised.text

\* C7 as stated: whenever handle_command raises any exception,
\* route_command raises the RuntimeError that carries the target system
\* name and the original error text.
C7_AnyHandlerErrorWrapped ==
    \A t \in Tasks :
        (task[t].entry = "route_command" /\ task[t].pc = "done"
            /\ "raise" \in EventSet(task[t]))
            => /\ task[t].outcome = "raised"
               /\ task[t].exc.type = "RuntimeError"
               /\ task[t].exc.text = WrappedText(task[t])

\* C7 amended: whenever handle_command raises an exception derived from
\* Exception, route_command raises the RuntimeError that carries the
\* target system name and the original error text, and the handler's own
\* exception does not reach the caller; an exception derived only from
\* BaseException reaches the caller as it is.
C7_HandlerExceptionWrapped ==
    \A t \in Tasks :
        (task[t].entry = "route_command" /\ task[t].pc = "done"
            /\ "raise" \in EventSet(task[t]))
            => /\ task[t].outcome = "raised"
               /\ ~task[t].raised.base_only
                    => /\ task[t].exc.type = "RuntimeError"
                       /\ task[t].exc.text = WrappedText(task[t])
                       /\ task[t].exc # task[t].raised
               /\ task[t].raised.base_only => task[t].exc = task[t].raised

\* a handler that raised KeyError("boom") into route_command
C7_Witness ==
    \E t \in Tasks :
        /\ task[t].entry = "route_command" /\ task[t].pc = "done"
        /\ "raise" \in EventSet(task[t])
        /\ task[t].raised.type = "KeyError"
        /\ task[t].exc.type = "RuntimeError"

\* the task starts a call in this step and a handler class is instantiated in it
Instantiates(t) ==
    /\ task[t].pc # "awaiting"
    /\ task'[t] # task[t]
    /\ "instantiate" \in EventSet(task'[t])

\* C8: last writer wins: route_command for target x instantiates the
\* handler class given in the most recent register_handler(x, ...) call;
\* a register_handler call for a key that is already present logs a
\* warning, and a call for a new key logs none.
C8_LastWriterWins ==
    [][ /\ \A t \in Tasks :
               Instantiates(t) =>
                   task'[t].handler = registered.latest[task'[t].command.target_system]
        /\ (registered'.some /\ registered' # registered)
               => (registered'.warning <=>
                       registered'.system_name \in DOMAIN registered.latest)
      ]_vars

\* a handler instantiated for a target that was registered twice, with
\* two different classes
C8_Witness ==
    \E t \in Tasks :
        /\ "instantiate" \in EventSet(task[t])
        /\ task[t].command.target_system \in DOMAIN registered.first
        /\ registered.first[task[t].command.target_system]
               # registered.latest[task[t].command.target_system]
        /\ task[t].handler = registered.latest[task[t].command.target_system]

\* the mapping is one process_input builds: status 'success' with the
\* handler's response under 'result', or status 'error' with a message
WellFormedReply(tk) ==
    \/ /\ tk.reply.status = "success"
       /\ "result" \in tk.reply.keys
       /\ tk.reply.result = tk.response
       /\ "return" \in EventSet(tk)
    \/ /\ tk.reply.status = "error"
       /\ "message" \in tk.reply.keys
       /\ tk.reply.message # <<>>
       /\ "result" \notin tk.reply.keys

C10_RejectedCommandNotRouted ==
    \A t \in Tasks :
        (task[t].entry = "process_input" /\ "verify_failed" \in EventSet(task[t]))
            => /\ task[t].pc = "done"
               /\ task[t].outcome = "returned"
               /\ task[t].reply.status = "error"
               /\ task[t].events = <<"parse", "verify_failed">>
               /\ task[t].handler = ""

\* a signed command whose signature does not match, rejected while a
\* handler for its target is registered
C10_Witness ==
    \E t \in Tasks :
        /\ task[t].entry = "process_input"
        /\ "verify_failed" \in EventSet(task[t])
        /\ HasSignature(task[t].command)
        /\ task[t].command.target_system \in DOMAIN handlers
        /\ task[t].reply.status = "error"

\* the place of an event in the lifecycle of a command
Rank(event) ==
    CASE event = "parse" -> 1
      [] event \in {"unsigned", "verify_ok", "verify_failed"} -> 2
      [] event = "lookup" -> 3
      [] event = "instantiate" -> 4
      [] event = "invoke" -> 5
      [] event \in {"return", "raise"} -> 6
      [] OTHER -> 0

\* C11: in every execution of process_input the events of one command
\* occur strictly in the order parse, verification decision, registry
\* lookup and handler instantiation, handler invocation, then exactly one
\* terminal outcome; no handler is invoked for a message whose parse
\* returned nothing, and none before the verification decision is taken.
C11_LifecycleOrder ==
    \A t \in Tasks :
        LET tk == task[t]
            n == Len(tk.events)
        IN  tk.entry = "process_input"
                => /\ n > 0 /\ tk.events[1] = "parse"
                   /\ \A i, j \in 1..n : i < j => Rank(tk.events[i]) < Rank(tk.events[j])
                   /\ \A i \in 1..n : Rank(tk.events[i]) > 0
                   /\ tk.command.none => tk.events = <<"parse">>
                   /\ "lookup" \in EventSet(tk)
                        => /\ ~tk.command.none
                           /\ Rank(tk.events[2]) = 2
                           /\ "verify_failed" \notin EventSet(tk)
                   /\ "invoke" \in EventSet(tk)
                        => /\ tk.events[3] = "lookup"
                           /\ tk.events[4] = "instantiate"
                           /\ tk.events[5] = "invoke"
                   /\ tk.pc = "awaiting" <=> tk.events[n] = "invoke"
                   /\ (tk.pc = "done" /\ "invoke" \in EventSet(tk))
                        => /\ n = 6
                           /\ tk.events[6] = "return" <=> tk.reply.status = "success"
                           /\ tk.events[6] = "raise" <=> tk.raised # NoExc
                   /\ tk.pc = "done" <=> tk.outcome \in {"returned", "raised"}

\* a signed command that went through every step and succeeded
C11_Witness ==
    \E t \in Tasks :
        /\ task[t].entry = "process_input"
        /\ task[t].events =
               <<"parse", "verify_ok", "lookup", "instantiate", "invoke", "return">>
        /\ task[t].reply.status = "success"

\* how many times the event occurs in the call
Occurrences(tk, event) ==
    Cardinality({i \in 1..Len(tk.events) : tk.events[i] = event})

\* C12: no retry: for each call of route_command and of process_input the
\* handler's handle_command is invoked at most once; once the handler has
\* raised, the call is over (the failed outcome is terminal) and the
\* command is not dispatched again.
C12_NoRetry ==
    /\ [](\A t \in Tasks :
              /\ Occurrences(task[t], "invoke") <= 1
              /\ "raise" \in EventSet(task[t])
                   => /\ task[t].pc = "done"
                      /\ task[t].events[Len(task[t].events)] = "raise"
                      /\ task[t].outcome = "raised" \/ task[t].reply.status = "error")
    /\ [][\A t \in Tasks :
              (task[t].pc = "awaiting" /\ task'[t] # task[t])
                  => /\ task'[t].pc = "done"
                     /\ \E last \in {"return", "raise"} :
                            task'[t].events = Append(task[t].events, last)
                     /\ task'[t].command = task[t].command]_vars

\* a route_command call that failed in the handler while the handler is
\* still registered for the target
C12_Witness ==
    \E t \in Tasks :
        /\ task[t].entry = "route_command" /\ task[t].pc = "done"
        /\ task[t].events = <<"lookup", "instantiate", "invoke", "raise">>
        /\ task[t].outcome = "raised"
        /\ task[t].command.target_system \in DOMAIN handlers

\* the registry had a handler class for the target of the call
LookupSucceeded(tk) == "lookup" \in EventSet(tk) /\ tk.handler # ""

\* C13 as stated: every route_command call for a registered target
\* instantiates exactly one new handler from the registered factory and
\* invokes handle_command on that new instance.
C13_EveryLookupInvokes ==
    \A t \in Tasks :
        LookupSucceeded(task[t])
            => /\ Occurrences(task[t], "instantiate") = 1
               /\ Occurrences(task[t], "invoke") = 1
               /\ task[t].instance # 0
               /\ \A u \in Tasks \ {t} : task[t].instance # task[u].instance

\* C13 amended: every route_command call for a registered target calls
\* the registered factory exactly once; when the factory returns,
\* handle_command is invoked once, on the object that call made and on no
\* other, and no two calls ever share a handler object; when the factory
\* raises, no handle_command is invoked and the call fails.  The number
\* of factory calls grows by one with every successful lookup and with
\* nothing else.
C13_OneFreshInstancePerCall ==
    /\ [](\A t \in Tasks :
              /\ LookupSucceeded(task[t])
                   => /\ Occurrences(task[t], "instantiate") = 1
                      /\ Occurrences(task[t], "invoke") <= 1
                      /\ task[t].instance # 0
                      /\ "invoke" \notin EventSet(task[t])
                           => /\ task[t].pc = "done"
                              /\ task[t].raised # NoExc
                              /\ task[t].events[Len(task[t].events)] = "instantiate"
              /\ ~LookupSucceeded(task[t]) => task[t].instance = 0
              /\ task[t].instance <= instances
              /\ \A u \in Tasks \ {t} :
                     task[t].instance # 0 => task[t].instance # task[u].instance)
    /\ [][(\A t \in Tasks :
                Instantiates(t)
                    => /\ instances' = instances + 1
                       /\ task'[t].instance = instances')
           /\ (instances' # instances => \E t \in Tasks : Instantiates(t))]_vars

\* two calls for the same target are awaiting their handlers at the same
\* time, each on the object made for it
C13_Witness ==
    \E t, u \in Tasks :
        /\ t # u
        /\ task[t].pc = "awaiting" /\ task[u].pc = "awaiting"
        /\ task[t].command = task[u].command
        /\ task[t].handler = task[u].handler
        /\ task[t].instance = 1 /\ task[u].instance = 2

\* C14: when the handler's handle_command returns without raising,
\* route_command returns exactly the value the handler returned,
\* unmodified and unvalidated, whatever its shape (a mapping whose own
\* status is 'error' included).
C14_ResponsePassedThrough ==
    \A t \in Tasks :
        (task[t].entry = "route_command" /\ "return" \in EventSet(task[t]))
            => /\ task[t].pc = "done"
               /\ task[t].outcome = "returned"
               /\ task[t].exc = NoExc
               /\ task[t].response = task[t].handled

\* route_command returned a mapping whose status is 'error'
C14_Witness ==
    \E t \in Tasks :
        /\ task[t].entry = "route_command" /\ task[t].outcome = "returned"
        /\ task[t].handled.status = "error"
        /\ task[t].response = task[t].handled

\* C20: with two or more dispatch tasks scheduled concurrently on one
\* router, a handler that never completes in one task blocks only that
\* task: every other task whose handler completes reaches a terminal
\* outcome under fair scheduling, while the hung task stays where it is
\* for ever.
C20_HungHandlerBlocksOnlyItsTask ==
    /\ \A t \in Tasks :
           (task[t].pc = "awaiting" /\ task[t].hangs = "")
               ~> (task[t].pc = "done" \/ task[t].hangs # "")
    /\ [][\A t \in Tasks : task[t].hangs # "" => task'[t] = task[t]]_vars

\* the call just made is one of extract_command, directly or from process_message
Extracting == extracted.op \in {"extract_command", "process_message"}

\* the text captured as payload parses as a JSON object
PayloadIsObject(message) ==
    /\ Loads(message, Search(message)).ok
    /\ Loads(message, Search(message)).v.t = "obj"

\* C15: for every message in which the command pattern matches but the
\* captured payload does not parse as a JSON object (invalid JSON, or
\* valid JSON that is not an object), extract_command returns nothing
\* and leaves the command cache unchanged.
C15_NonObjectPayloadIgnored ==
    (Extracting /\ Search(extracted.message).found
        /\ ~PayloadIsObject(extracted.message))
        => /\ extracted.command.none
           /\ command_cache = extracted.cache_before

\* C16: for every message that contains no match of the command pattern,
\* extract_command returns nothing, process_message returns metadata
\* with has_command = false, and the command cache is unchanged.
C16_NoMatchNoCommand ==
    (Extracting /\ ~ReSearch(extracted.message).found)
        => /\ extracted.command.none
           /\ command_cache = extracted.cache_before
           /\ extracted.op = "process_message"
                => /\ ~extracted.metadata.has_command
                   /\ extracted.metadata.keys = {}

\* process_message on a text that has the marks of a command but no
\* match, while the cache holds a command
C16_Witness ==
    /\ extracted.op = "process_message"
    /\ ~ReSearch(extracted.message).found
    /\ \E i \in 1..Len(extracted.message) : extracted.message[i] = "#"
    /\ extracted.cache_before # <<>>
    /\ command_cache = extracted.cache_before
    /\ ~extracted.metadata.has_command

\* C17: process_message returns a metadata mapping for every message;
\* metadata.has_command is true exactly when the returned command is not
\* nothing, and in that case metadata.command_type and
\* metadata.target_system equal the returned command's fields, while
\* metadata.length equals the message length.
C17_MetadataEchoesCommand ==
    extracted.op = "process_message"
        => /\ extracted.metadata.length = Len(extracted.message)
           /\ extracted.metadata.timestamp = now
           /\ extracted.metadata.has_command <=> ~extracted.command.none
           /\ extracted.metadata.has_command
                => /\ {"command_type", "target_system"} \subseteq extracted.metadata.keys
                   /\ extracted.metadata.command_type = extracted.command.command_type
                   /\ extracted.metadata.target_system = extracted.command.target_system
           /\ ~extracted.metadata.has_command => extracted.metadata.keys = {}

\* process_message returned a command whose two fields differ
C17_Witness ==
    /\ extracted.op = "process_message"
    /\ extracted.metadata.has_command
    /\ ~extracted.command.none
    /\ extracted.command.command_type # extracted.command.target_system
    /\ extracted.metadata.command_type = extracted.command.command_type

\* "{c.command_type}_{c.target_system}_{c.timestamp}"
KeyOf(c) ==
    c.command_type \o <<"_">> \o c.target_system \o <<"_">> \o FloatStr(c.timestamp.v)

\* C18: every successful extract_command stamps the returned Command c
\* with the current time and records it in the cache: immediately
\* afterwards get_cached_command of the key made of c's command_type,
\* target_system and timestamp returns c.
C18_ExtractedCommandCached ==
    (Extracting /\ ~extracted.command.none)
        => /\ extracted.command.timestamp = Timestamp(now)
           /\ GetCachedCommand(command_cache, KeyOf(extracted.command))
                  = extracted.command

\* a command extracted under a key the cache already held, with another payload
C18_Witness ==
    /\ Extracting /\ ~extracted.command.none
    /\ KeyOf(extracted.command) \in DOMAIN extracted.cache_before
    /\ extracted.cache_before[KeyOf(extracted.command)] # extracted.command
    /\ GetCachedCommand(command_cache, KeyOf(extracted.command)) = extracted.command

\* C19: verify_signature never propagates an exception: for every
\* message, signature string and timestamp value (malformed signatures
\* and timestamps that cannot be converted to a date included) it
\* returns a boolean, and it returns false whenever an internal step
\* raised.
C19_VerifyNeverRaises ==
    verified.some
        => /\ ~verified.raised
           /\ verified.result \in BOOLEAN
           /\ (verified.timestamp = BadTimestamp \/ ~Encodable(verified.signature))
                => (verified.caught \/ verified.expired) /\ ~verified.result
           /\ verified.caught => ~verified.result

\* a signature that cannot be encoded, offered with a convertible
\* timestamp that is not expired, was answered with False
C19_Witness ==
    /\ verified.some /\ ~Encodable(verified.signature)
    /\ verified.timestamp.k = "num" /\ ~verified.expired
    /\ verified.caught /\ ~verified.result /\ ~verified.raised

\* a step of a call that parses or dispatches: its task has gone on
DispatchStep ==
    \E t \in Tasks : task'[t].events # task[t].events /\ task'[t].events # <<>>

\* every entry but the one of system_name is as it was
OthersKept(system_name) ==
    /\ DOMAIN handlers' = DOMAIN handlers \cup {system_name}
    /\ \A k \in DOMAIN handlers : k # system_name => handlers'[k] = handlers[k]

\* C21: the registry is changed only by register_handler: route_command
\* (successful, failing with a routing error or failing with a handler
\* error) leaves it unchanged, and register_handler(x, f) changes the
\* entry for x only, every other entry staying as it was.
C21_RegistryChangedOnlyByRegister ==
    [][/\ DispatchStep => handlers' = handlers
       /\ handlers' # handlers
            => /\ registered'.some
               /\ handlers'[registered'.system_name] = registered'.handler
               /\ OthersKept(registered'.system_name)]_vars

\* register_handler has replaced the entry of one system while the
\* registry held another one, which is as its last registration left it
C21_Witness ==
    /\ registered.some /\ registered.warning
    /\ \E k \in DOMAIN handlers :
           /\ k # registered.system_name
           /\ handlers[k] = registered.latest[k]
           /\ handlers[k] # handlers[registered.system_name]

\* C22: the command cache is append-only on the hot path: across any
\* sequence of extract_command, process_message and get_cached_command
\* calls the set of cache keys never shrinks and no entry is evicted to
\* make room (every extracted command adds its key, whatever the size);
\* only clear_cache removes entries, and after clear_cache
\* get_cached_command returns nothing for every key.
C22_CacheAppendOnly ==
    /\ [](extracted.op = "clear_cache"
            => \A key \in AskedKeys : GetCachedCommand(command_cache, key) = NoCommand)
    /\ [][/\ extracted'.op \in {"extract_command", "process_message", "get_cached_command"}
              => DOMAIN command_cache \subseteq DOMAIN command_cache'
          /\ ~(DOMAIN command_cache \subseteq DOMAIN command_cache')
              => extracted'.op = "clear_cache"
          /\ (Extracting' /\ ~extracted'.command.none)
              => DOMAIN command_cache'
                    = DOMAIN command_cache \cup {KeyOf(extracted'.command)}
          /\ extracted'.op = "get_cached_command" => command_cache' = command_cache
          /\ (extracted.op = "clear_cache" /\ extracted'.op = "get_cached_command")
              => extracted'.command.none]_vars

\* clear_cache has emptied a cache that had grown to several entries
C22_Witness ==
    /\ extracted.op = "clear_cache"
    /\ Cardinality(DOMAIN extracted.cache_before) >= 2
    /\ command_cache = <<>>
    /\ \A key \in DOMAIN extracted.cache_before :
           GetCachedCommand(command_cache, key) = NoCommand

\* the age decision of verify_signature(message, signature, ts) made
\* under the key and the maximum age given, at the clock reading given
AgeDecision(key, age, ts, clock) ==
    [m \in SignMessages |->
        VerifySignatureResult(key, age, m, issued.signature, ts, clock).expired]

\* C23: update_secret_key replaces only the secret: the maximum signature
\* age is unchanged, so for every timestamp the expired / not-expired
\* decision of verify_signature is the same before and after the
\* replacement.
C23_KeyUpdateKeepsAgeWindow ==
    [][secret_key' # secret_key
          => /\ max_age' = max_age
             /\ \A ts \in TimestampInputs :
                    AgeDecision(secret_key', max_age', ts, now')
                        = AgeDecision(secret_key, max_age, ts, now)]_vars

\* a signature issued under one key was refused as expired under the key
\* that replaced it, with a maximum age that is not the default
C23_Witness ==
    /\ issued.some /\ verified.some
    /\ verified.key # issued.key
    /\ verified.signature = issued.signature
    /\ verified.timestamp = issued.timestamp
    /\ verified.age # DefaultMaxAge
    /\ verified.expired /\ ~verified.result

\* the fields extract_command sets when it builds the Command of a text
SetAtParse(command, input, clock) ==
    /\ command.command_type = Search(input).command_type
    /\ command.target_system = Search(input).target_system
    /\ command.signature = NoSignature
    /\ command.timestamp = Timestamp(clock)

\* C24: a Command is immutable once constructed: no core operation
\* (extract_command, process_message, verify_signature, route_command,
\* process_input) changes any field of a Command after its construction,
\* so the command the handler receives and the command stored in the
\* cache have exactly the fields set at parse time.
C24_CommandUnchangedAfterConstruction ==
    /\ [](\A t \in Tasks :
            "invoke" \in EventSet(task[t])
                => /\ task[t].received = task[t].command
                   /\ (task[t].entry = "process_input" /\ task[t].input # <<>>)
                        => /\ SetAtParse(task[t].received, task[t].input, now)
                           /\ GetCachedCommand(command_cache, KeyOf(task[t].command))
                                 = task[t].received)
    /\ [][\A t \in Tasks :
            (task[t].pc = "awaiting" /\ task'[t].pc # "idle")
                => /\ task'[t].command = task[t].command
                   /\ task'[t].received = task[t].received]_vars

\* a command parsed by process_input went to its handler, which has
\* returned, and the cache holds it as the handler received it
C24_Witness ==
    \E t \in Tasks :
        /\ task[t].entry = "process_input" /\ task[t].input # <<>>
        /\ task[t].pc = "done" /\ "return" \in EventSet(task[t])
        /\ ~task[t].received.none
        /\ SetAtParse(task[t].received, task[t].input, now)
        /\ GetCachedCommand(command_cache, KeyOf(task[t].received)) = task[t].received

\* the candidates an attacker compares a signature with: the issued
\* signature and candidates that differ from the one offered at the first
\* or at the last position, of the length of the one offered
Candidates(signature) ==
    {c \in {issued.signature, Mutate(signature, 1), Mutate(signature, Len(signature))} :
        Len(c) = Len(signature)}

\* the leading bytes two texts have in common
RECURSIVE CommonPrefix(_, _)
CommonPrefix(a, b) ==
    IF a = <<>> \/ b = <<>> \/ Head(a) # Head(b) THEN 0
    ELSE 1 + CommonPrefix(Tail(a), Tail(b))

Carries(payload, key) ==
    /\ <<key>> \in DictKeys(payload) /\ <<"content">> \in DictKeys(payload)
    /\ ValueTruthy(DictGet(payload, <<key>>))

\* the key of the destination in the payload of a platform
DestinationKey(handler) ==
    IF handler = "discord" THEN "channel_id"
    ELSE IF handler = "telegram" THEN "chat_id" ELSE "to"

\* the one delivery of the content of the payload to its destination
OnceTo(handler, payload) ==
    LET to == DictGet(payload, <<DestinationKey(handler)>>)
    IN  <<[platform |-> handler,
           to |-> IF handler = "discord" THEN JNum(IntOf(to)) ELSE to,
           content |-> DictGet(payload, <<"content">>)]>>

\* every call the handler made to the platform returned
PlatformAccepted(call) ==
    IF call.handler = "discord"
    THEN /\ IntAccepts(DictGet(call.payload, <<"channel_id">>))
         /\ call.env = <<"channel", "ok">>
    ELSE call.env = <<"ok">>

HasTo(payload) ==
    <<"to">> \in DictKeys(payload) /\ ValueTruthy(DictGet(payload, <<"to">>))

\* C27: EmailHandler.handle_command on a command whose payload has a 'to'
\* address sends exactly one message over the handler's SMTP connection
\* and returns status 'success'; an SMTP connection is opened first if and
\* only if the handler holds none, so an already established connection
\* is reused and not reopened.  Stated for calls made while the server
\* accepts connections, logins and mail.
C27_EmailSentOverOneConnection ==
    (delivery.handler = "email" /\ HasTo(delivery.payload)
        /\ delivery.env = <<"accepting">>)
        => /\ delivery.response.status = "success"
           /\ Len(delivery.delivered) = 1
           /\ delivery.opened = 1 <=> delivery.smtp_before = "none"

\* two commands differ in command_type, target_system or timestamp
DifferInKeyFields(c, d) ==
    \/ c.command_type # d.command_type
    \/ c.target_system # d.target_system
    \/ c.timestamp # d.timestamp

\* C28: cache keys are unique per command: any two commands that differ in
\* command_type, target_system or timestamp get different cache keys, so
\* every cache key maps to the one Command that produced it and a
\* successful extraction never overwrites the entry of a different
\* command.
C28_CacheKeysUnique ==
    (Extracting /\ ~extracted.command.none)
        => \A k \in DOMAIN extracted.cache_before :
              /\ DifferInKeyFields(extracted.cache_before[k], extracted.command)
                    => GenerateCacheKey(extracted.command) # k
              /\ command_cache[k] # extracted.cache_before[k]
                    => ~DifferInKeyFields(extracted.cache_before[k], extracted.command)

\* C29: under single-threaded cooperative scheduling, registry lookup and
\* handler instantiation in route_command happen with no suspension point
\* between them: for every interleaving of concurrent route_command and
\* register_handler calls, a command is handled by an instance of the
\* factory that was registered for its target at the moment of its lookup,
\* and a register_handler that runs while that handler is awaiting does
\* not change the in-flight command's handler.
C29_HandlerFixedAtLookup ==
    [][\A t \in Tasks :
          /\ Instantiates(t)
                => /\ task'[t].command.target_system \in DOMAIN handlers
                   /\ task'[t].handler = handlers[task'[t].command.target_system]
                   /\ handlers' = handlers
          /\ (task[t].pc = "awaiting" /\ task'[t].pc # "idle")
                => /\ task'[t].handler = task[t].handler
                   /\ task'[t].instance = task[t].instance
                   /\ task'[t].received = task[t].received]_vars

\* two calls are awaiting handlers of different classes for the same
\* target: the registration changed after the first lookup, and the
\* first call keeps the class it found
C29_Witness ==
    \E t, u \in Tasks :
        /\ task[t].pc = "awaiting" /\ task[u].pc = "awaiting"
        /\ task[t].command.target_system = task[u].command.target_system
        /\ task[t].instance < task[u].instance
        /\ task[t].handler # task[u].handler
        /\ task[u].handler = handlers[task[u].command.target_system]

\* the timestamp is later than the clock reading
Later(ts, clock) == ts.k = "far" \/ (ts.k = "num" /\ ts.v > clock)

\* C30 as stated: signature age is bounded only from above: for every
\* timestamp t later than the current time (negative age),
\* verify_signature(s, generate_signature(s, t), t) returns true; a future
\* timestamp is never rejected on age grounds.
C30_FutureTimestampAccepted ==
    (VerifiedAsIssued /\ verified.signature = issued.signature
        /\ Later(verified.timestamp, verified.at))
        => verified.result

\* C30 amended: for every timestamp t later than the current time that
\* datetime.fromtimestamp can convert, verify_signature(s,
\* generate_signature(s, t), t) returns true and the age check does not
\* refuse it; for a future t beyond the dates datetime holds the
\* conversion raises and verify_signature returns false.
C30_ConvertibleFutureTimestampAccepted ==
    (VerifiedAsIssued /\ verified.signature = issued.signature
        /\ Later(verified.timestamp, verified.at))
        => /\ ~verified.expired
           /\ Convertible(verified.timestamp) => verified.result /\ ~verified.caught
           /\ ~Convertible(verified.timestamp) => ~verified.result /\ verified.caught

\* a signature issued for an instant that lies ahead of the clock by more
\* than the maximum age was accepted
C30_Witness ==
    /\ VerifiedAsIssued /\ verified.signature = issued.signature
    /\ Convertible(verified.timestamp)
    /\ verified.timestamp.v - verified.at > verified.age
    /\ verified.result

\* a process_input call made with the MessageProcessor of the constructor
Parsed(tk) == tk.entry = "process_input" /\ tk.input # <<>>

\* C31: every Command returned by extract_command or process_message has
\* no signature; so process_input never calls verify_signature, every
\* command it routes takes the unverified branch, and the 'Invalid command
\* signature' reply is never given by process_input.
C31_ParsedCommandsUnsigned ==
    /\ \A input \in CoreMessages :
          /\ ExtractCommandResult(input, command_cache, now, lax_dict).command.signature
                = NoSignature
          /\ ProcessMessageResult(input, command_cache, now, lax_dict).command.signature
                = NoSignature
    /\ \A t \in Tasks :
          Parsed(task[t])
              => /\ task[t].command.signature = NoSignature
                 /\ "verify_ok" \notin EventSet(task[t])
                 /\ "verify_failed" \notin EventSet(task[t])
                 /\ task[t].reply # InvalidSignatureReply(task[t].metadata)
                 /\ "lookup" \in EventSet(task[t]) => "unsigned" \in EventSet(task[t])

\* a parsed command was routed to its handler without verification
C31_Witness ==
    \E t \in Tasks :
        /\ Parsed(task[t])
        /\ ~task[t].command.none
        /\ task[t].events = <<"parse", "unsigned", "lookup", "instantiate", "invoke">>
        /\ task[t].pc = "awaiting"

\* the handlers shipped in Command_Network
Shipped == {"discord", "telegram", "email"}

\* the command of a handle_command call, addressed to system x
CommandOf(call) == Command(<<"p">>, <<"x">>, call.payload, NoSignature, NoTimestamp)

\* what route_command makes of the outcome of the handle_command call
ThroughRoute(call) ==
    IF call.raised = NoExc
    THEN [exc |-> NoExc, response |-> RouteReturn(call.response)]
    ELSE [exc |-> WrapInRoute(CommandOf(call), call.raised), response |-> NoResponse]

\* what process_input makes of it
ThroughCore(call) ==
    IF ThroughRoute(call).exc = NoExc
    THEN [exc |-> NoExc,
          reply |-> SuccessReply(ThroughRoute(call).response, NoMetadata)]
    ELSE CoreOutcome(ThroughRoute(call).exc)

\* C32 as stated: the shipped handlers (Discord, Telegram, Email) never
\* raise from handle_command: every internal failure is returned as a
\* response with status 'error'; so for these handlers route_command never
\* raises because of handle_command, and process_input reports outer
\* status 'success' with a 'result' whose own status is 'error'.
C32_ShippedHandlersNeverRaise ==
    delivery.handler \in Shipped
        => /\ delivery.raised = NoExc
           /\ delivery.response.status \in {"success", "error"}
           /\ ThroughRoute(delivery).exc = NoExc
           /\ ThroughCore(delivery).exc = NoExc
           /\ ThroughCore(delivery).reply.status = "success"
           /\ ThroughCore(delivery).reply.result = delivery.response

\* C32 amended: the shipped handlers raise no exception derived from
\* Exception from handle_command: every such failure (send error, missing
\* destination) is returned as a response with status 'error', route_command
\* returns it and process_input reports outer status 'success' with that
\* response as 'result'.  Only an exception derived from BaseException alone
\* (the CancelledError of a cancelled task) leaves handle_command, and it
\* leaves route_command and process_input unwrapped.
C32_ShippedHandlersRaiseOnlyBaseExceptions ==
    delivery.handler \in Shipped
        => /\ delivery.raised = NoExc
                => /\ delivery.response.status \in {"success", "error"}
                   /\ delivery.delivered = <<>> => delivery.response.status = "error"
                   /\ ThroughRoute(delivery).exc = NoExc
                   /\ ThroughRoute(delivery).response = delivery.response
                   /\ ThroughCore(delivery).exc = NoExc
                   /\ ThroughCore(delivery).reply.status = "success"
                   /\ ThroughCore(delivery).reply.result = delivery.response
           /\ delivery.raised # NoExc
                => /\ delivery.raised.base_only
                   /\ delivery.handler # "email"
                   /\ ThroughRoute(delivery).exc = delivery.raised
                   /\ ThroughCore(delivery).exc = delivery.raised
                   /\ ThroughCore(delivery).reply = NoReply

\* the send of the Discord handler raised: the failure came back as a
\* response with status 'error', inside a reply with status 'success'
C32_Witness ==
    /\ delivery.handler = "discord"
    /\ delivery.env = <<"channel", "raises">>
    /\ IntAccepts(PayloadGet(delivery.payload, <<"channel_id">>, JNone))
    /\ ValueTruthy(PayloadGet(delivery.payload, <<"channel_id">>, JNone))
    /\ delivery.raised = NoExc
    /\ delivery.response = DiscordError
    /\ ThroughCore(delivery).reply.status = "success"
    /\ ThroughCore(delivery).reply.result.status = "error"

\* handler_class() raised in the call tk
FactoryRaised(tk) ==
    /\ tk.pc = "done"
    /\ "instantiate" \in EventSet(tk)
    /\ tk.raised # NoExc
    /\ "raise" \notin EventSet(tk)

\* C33: if the registered factory itself raises while being instantiated
\* (a handler whose credential is not configured), route_command raises
\* the same wrapped handler error naming the target system as it does for
\* a failing handle_command, and handle_command is never invoked for that
\* command.
C33_FactoryErrorWrapped ==
    \A t \in Tasks :
        FactoryRaised(task[t])
            => /\ "invoke" \notin EventSet(task[t])
               /\ task[t].received = NoCommand
               /\ task[t].handled = NoResponse
               /\ task[t].entry = "route_command"
                    => /\ task[t].outcome = "raised"
                       /\ task[t].exc = HandlerError(task[t].command, task[t].raised)
                       /\ task[t].exc.type = "RuntimeError"
                       /\ task[t].exc.text =
                              Lit("Error handling command for ")
                                  \o Chars(task[t].command.target_system)
                                  \o Lit(": ") \o task[t].raised.text
               /\ task[t].entry = "process_input"
                    => /\ task[t].outcome = "returned"
                       /\ task[t].reply =
                              ErrorReply(HandlerError(task[t].command, task[t].raised))

\* the factory registered for the target of a routed command raised
C33_Witness ==
    \E t \in Tasks :
        /\ FactoryRaised(task[t])
        /\ task[t].entry = "route_command"
        /\ task[t].events = <<"lookup", "instantiate">>
        /\ task[t].raised.type = "ValueError"
        /\ task[t].exc.type = "RuntimeError"
        /\ task[t].command.target_system \in DOMAIN handlers

\* the last verify_signature call presented the issued signature
PresentsIssued ==
    /\ verified.some /\ issued.some
    /\ verified.signature = issued.signature

\* C34 as stated: key rotation invalidates issued signatures: after
\* update_secret_key(k2) with k2 different from the previous key k1, every
\* signature generated under k1 fails verify_signature for every message
\* and timestamp, and verification succeeds only for signatures generated
\* under k2.
C34_RotationInvalidates ==
    /\ (PresentsIssued /\ verified.key # issued.key) => ~verified.result
    /\ (verified.some /\ verified.result)
          => verified.signature =
                 GenerateSignatureResult(verified.key, verified.message,
                                         verified.timestamp, verified.at)

\* C34 amended: after update_secret_key(k2) with k2 a different HMAC key
\* than k1 (different once trailing zero bytes are left out), every
\* signature generated under k1 fails verify_signature for every message
\* and timestamp, and verification succeeds only for signatures generated
\* under k2.
C34_RotationToAnotherKeyBlockInvalidates ==
    /\ (PresentsIssued /\ KeyBlock(Utf8(verified.key)) # KeyBlock(Utf8(issued.key)))
          => ~verified.result
    /\ (verified.some /\ verified.result)
          => verified.signature =
                 GenerateSignatureResult(verified.key, verified.message,
                                         verified.timestamp, verified.at)

\* a signature issued under one key is presented, with its message and a
\* timestamp that has not expired, after the key was replaced: it is refused
C34_Witness ==
    /\ PresentsIssued
    /\ KeyBlock(Utf8(verified.key)) # KeyBlock(Utf8(issued.key))
    /\ verified.message = issued.message
    /\ verified.timestamp = issued.timestamp
    /\ ~verified.expired /\ ~verified.caught
    /\ ~verified.result

\* the last verify_signature call presented, inside the validity window of
\* its timestamp, a triple that a call made at an earlier clock reading
\* accepted
ReplayInWindow ==
    /\ verified.some
    /\ SameTriple(accepted, verified.message, verified.signature, verified.timestamp)
    /\ verified.timestamp.k = "num"
    /\ verified.at - verified.timestamp.v <= verified.age

\* C35 as stated: verify_signature is stateless and keeps no record of
\* accepted signatures: a call changes neither the secret nor the maximum
\* age, and the same (message, signature, timestamp) triple that verified
\* once verifies again on every later call made while
\* now - timestamp <= max_age.
C35_ReplayAlwaysAccepted ==
    /\ [](ReplayInWindow => verified.result)
    /\ [][(verified'.some /\ verified' # verified)
            => (secret_key' = secret_key /\ max_age' = max_age)]_vars

\* C35 amended: a call changes neither the secret nor the maximum age, and
\* the triple that verified once verifies again on every later call made
\* while now - timestamp <= max_age and the secret key is still the one
\* it verified under.
C35_ReplayAcceptedUnderSameKey ==
    /\ []((ReplayInWindow /\ KeyBlock(Utf8(verified.key)) = KeyBlock(Utf8(accepted.key)))
            => verified.result)
    /\ [][(verified'.some /\ verified' # verified)
            => (secret_key' = secret_key /\ max_age' = max_age)]_vars

\* a triple accepted at one clock reading was presented again at a later
\* one, inside the window, and accepted
C35_Witness ==
    /\ ReplayInWindow
    /\ Truthy(verified.timestamp)
    /\ verified.at > accepted.at
    /\ verified.key = accepted.key
    /\ verified.result

\* the positions of the message at which a match of the pattern starts
MatchStarts(message) == {i \in 1..Len(message) : MatchAt(message, i).found}

\* the first of them
FirstStart(message) ==
    CHOOSE i \in MatchStarts(message) : \A k \in MatchStarts(message) : i <= k

\* the match that starts at position i carries a payload the Command accepts
WellFormedAt(message, i) ==
    LET loaded == JsonLoads(PayloadGroup(MatchAt(message, i)))
    IN  loaded.ok /\ ValidatePayload(loaded.v, lax_dict).ok

\* the cache keys whose entry the last call added or replaced
KeysWritten ==
    {k \in DOMAIN command_cache :
        k \notin DOMAIN extracted.cache_before
            \/ command_cache[k] # extracted.cache_before[k]}

\* C36: extract_command considers only the first (leftmost) match of the
\* command pattern in a message: when that first match's payload is not a
\* valid JSON object it returns nothing even if a later well-formed command
\* occurs in the same message, and at most one Command is produced and
\* cached per message.
C36_OnlyFirstMatchConsidered ==
    Extracting
        => /\ Cardinality(KeysWritten) <= 1
           /\ extracted.command.none => KeysWritten = {}
           /\ MatchStarts(extracted.message) # {}
                => LET first == FirstStart(extracted.message)
                   IN  /\ ~WellFormedAt(extracted.message, first)
                            => /\ extracted.command.none
                               /\ command_cache = extracted.cache_before
                       /\ ~extracted.command.none
                            => /\ extracted.command.command_type
                                    = MatchAt(extracted.message, first).command_type
                               /\ extracted.command.target_system
                                    = MatchAt(extracted.message, first).target_system
                               /\ KeysWritten \subseteq {KeyOf(extracted.command)}
                               /\ command_cache[KeyOf(extracted.command)]
                                    = extracted.command

\* a message whose first match has a payload that is no JSON, followed by
\* a command the processor would accept: nothing is returned
C36_Witness ==
    /\ Extracting
    /\ Cardinality(MatchStarts(extracted.message)) = 2
    /\ ~WellFormedAt(extracted.message, FirstStart(extracted.message))
    /\ \E i \in MatchStarts(extracted.message) : WellFormedAt(extracted.message, i)
    /\ extracted.command.none
    /\ command_cache = extracted.cache_before

\* C37 as stated: after any sequence of calculate_position_size calls with
\* confidence in [0, 1] made on one day, daily_risk_used is at most
\* account_balance * max_daily_risk; a call that returns 0 (limit would be
\* exceeded, or entry price equals stop loss) leaves daily_risk_used
\* unchanged, and daily_risk_used is reset to 0 only by the first call
\* made on a later date.
C37_ZeroCallLeavesRiskUsed ==
    /\ risk_manager.daily_risk_used <= DailyLimit(risk_manager)
    /\ (sized.some /\ sized.result = 0)
          => risk_manager.daily_risk_used = sized.used_before
    /\ (sized.some /\ risk_manager.daily_risk_used < sized.used_before)
          => sized.reset

\* C37 amended: daily_risk_used is at most account_balance * max_daily_risk
\* after every call; the first call made on a later date than the last
\* reset puts daily_risk_used to 0 before anything else, whatever it
\* returns, and nothing else lowers it; a call that returns 0 books
\* nothing: it leaves daily_risk_used unchanged on the day of the last
\* reset and at 0 on a later date.
C37_DailyRiskWithinBudget ==
    /\ [](/\ risk_manager.daily_risk_used >= 0
          /\ risk_manager.daily_risk_used <= DailyLimit(risk_manager)
          /\ risk_manager.last_reset <= today)
    /\ [][/\ (sized' # sized /\ sized'.result = 0 /\ ~sized'.reset)
                => risk_manager'.daily_risk_used = risk_manager.daily_risk_used
          /\ (sized' # sized /\ sized'.result = 0 /\ sized'.reset)
                => risk_manager'.daily_risk_used = 0
          /\ risk_manager'.daily_risk_used < risk_manager.daily_risk_used
                => /\ sized' # sized /\ sized'.reset
                   /\ today > risk_manager.last_reset
                   /\ risk_manager'.last_reset = today
                   /\ risk_manager'.daily_risk_used
                        \in {0, RiskAmount(risk_manager, sized'.confidence)}
          /\ sized' = sized
                => risk_manager' = risk_manager
          /\ (sized' # sized /\ ~sized'.reset)
                => /\ risk_manager'.daily_risk_used >= risk_manager.daily_risk_used
                   /\ risk_manager'.last_reset = risk_manager.last_reset]_vars

\* with the day's budget used up, a call whose prices differ is answered
\* with 0 and books nothing; the same happened before for equal prices
C37_Witness ==
    /\ sized.some /\ sized.result = 0 /\ ~sized.reset
    /\ sized.entry_price # sized.stop_loss
    /\ sized.risk_amount > 0
    /\ sized.used_before > 0
    /\ sized.used_before + sized.risk_amount > DailyLimit(risk_manager)
    /\ risk_manager.daily_risk_used = sized.used_before
    /\ today > 0

\* a collection whose answer carried an id whose processing had failed
\* after an earlier collection
FailedItemOfferedAgain ==
    /\ gathered.last_call.some
    /\ gathered.last_call.refused \cap gathered.failed # {}

C39_CollectedOncePerInterval ==
    \A s \in SourceIds : ~gathered.passes[s].early
====
